---- MODULE Spec2Model ----
(***************************************************************************)
(* A model of the reputation-net node: the statement/opinion store with    *)
(* its template and signer caches, the sync engine and the gossip/RPC      *)
(* handlers of the node loop.                                              *)
(***************************************************************************)
EXTENDS Integers, Sequences, FiniteSets, TLC

VARIABLES
    storage,     \* node -> Storage (the database tables and the two caches)
    own_infos,   \* node -> SyncState.own_infos, a set of cached SyncInfos
    topics,      \* node -> set of subscribed gossipsub topics
    sent,        \* node -> messages posted/published by the last handler
    plan,        \* the access path the database uses for statement selects
    panicked,    \* node -> TRUE once a handler has panicked
    steps,       \* number of operations performed so far
    last,        \* record of the last operation (input, pre-state, result)
    pc,          \* phase of the two-peer exchange; "exited" once the node
                 \* loop has returned
    mt,          \* input and result of matches_template
    clock,       \* the current day, as Date::today() reports it
    milter,      \* connection -> state of the milter task serving it
    queues,      \* the two channels of main: events for the node loop and
                 \* lines of local input
    lock,        \* the reader/writer lock around the store: its guards and
                 \* the requests waiting for one
    tasks        \* task -> the handler it runs and how far it has come

vars ==
    <<storage, own_infos, topics, sent, plan, panicked, steps, last, pc, mt, clock,
      milter, queues, lock, tasks>>

None == [none |-> TRUE]

\* Both channels are empty when main has created them.
NoQueues == [messages |-> <<>>, input |-> <<>>]

\* RwLock::new: nobody holds a guard and nobody waits for one.
NoLock == [writer |-> {}, readers |-> {}, waiting |-> <<>>]

NoTasks == <<>>

NotMatching == [done |-> FALSE]

\* Evaluate x once and hand the value to F.
Bind(x, F(_)) == CHOOSE r \in {F(y) : y \in {x}} : TRUE

\* ------------------------------------------------------------------ bounds

Today == 2
MaxOps == 3
MaxArity == 3

\* ---------------------------------------------------------------- entities

EntityTypes == {"Template", "Signer", "Domain", "EMail", "HashValue",
                "AS", "IPv4", "IPv6", "Url"}

Ent(type, text) == [type |-> type, text |-> text]

RECURSIVE Join(_, _)
Join(strs, sep) ==
    IF Len(strs) = 0 THEN ""
    ELSE IF Len(strs) = 1 THEN strs[1]
    ELSE strs[1] \o sep \o Join(Tail(strs), sep)

Tmpl(name, entity_types) == [name |-> name, entity_types |-> entity_types]

TemplateToString(t) ==
    t.name \o "("
      \o Join([i \in 1..Len(t.entity_types) |-> Join(t.entity_types[i], "|")], ",")
      \o ")"

TRoot == Tmpl("template", << <<"Template">> >>)
TSigner == Tmpl("signer", << <<"Signer">> >>)
TSpammer == Tmpl("spammer", << <<"Domain">> >>)
TQuad == Tmpl("quad", << <<"Domain">>, <<"Domain">>, <<"Domain">>, <<"Domain">> >>)
TReported == Tmpl("reported", << <<"HashValue">> >>)
TSpammerIp == Tmpl("spammer", << <<"IPv4">> >>)
TListed == Tmpl("listed", << <<"Domain", "EMail", "HashValue", "IPv4", "IPv6">> >>)

TDynamic == Tmpl("dynamic", << <<"IPv4">> >>)
TKnown == Tmpl("known", << <<"Domain">> >>)

TemplateUniverse ==
    {TRoot, TSigner, TSpammer, TQuad, TReported, TSpammerIp, TListed, TDynamic, TKnown}

TemplateFromStr(text) ==
    IF \E t \in TemplateUniverse : TemplateToString(t) = text
    THEN CHOOSE t \in TemplateUniverse : TemplateToString(t) = text
    ELSE None

TemplateEntity(t) == Ent("Template", TemplateToString(t))

KeyA == "secp256k1:A"
KeyB == "secp256k1:B"
Key1 == "secp256k1:P"
Key2 == "secp256k1:Q"

DomA == Ent("Domain", "a.com")
DomB == Ent("Domain", "b.com")
MailU == Ent("EMail", "u@a.com")
IpA == Ent("IPv4", "192.0.2.5")
IpB == Ent("IPv4", "192.0.2.9")
IpNet == Ent("IPv4", "192.0.2.0/24")
Ip6A == Ent("IPv6", "2001:db8::1")
Ip6Net == Ent("IPv6", "2001:db8::/32")

HashString(s) == Ent("HashValue", "#sha256=" \o s)

EntityHashEmails(e) == IF e.type = "EMail" THEN HashString(e.text) ELSE e

EntityType(e) == e.type

EntityToString(e) == e.text

\* ---------------------------------------------------------------- statements

Stmt(name, entities) == [name |-> name, entities |-> entities]

StatementSigner(key) == Stmt("signer", <<Ent("Signer", key)>>)

StatementToString(s) ==
    s.name \o "(" \o Join([i \in 1..Len(s.entities) |-> EntityToString(s.entities[i])], ",") \o ")"

StatementHashEmails(s) ==
    Stmt(s.name, [i \in 1..Len(s.entities) |-> EntityHashEmails(s.entities[i])])

Min(a, b) == IF a < b THEN a ELSE b

Contains(seq, x) == \E i \in 1..Len(seq) : seq[i] = x

MatchesTemplate(s, t) ==
    s.name = t.name
    /\ \A i \in 1..Min(Len(s.entities), Len(t.entity_types)) :
           Contains(t.entity_types[i], EntityType(s.entities[i]))

\* ------------------------------------------------------------------ opinions

SignedOp(date, valid, serial, certainty, comment, signer, signature) ==
    [date |-> date, valid |-> valid, serial |-> serial, certainty |-> certainty,
     comment |-> comment, signer |-> signer, signature |-> signature]

PercentEncode(comment) ==
    CASE comment = "" -> ""
      [] comment = "a;b" -> "a%3Bb"
      [] OTHER -> comment

OpinionToString(o) ==
    ToString(o.date) \o ";" \o ToString(o.valid) \o ";" \o ToString(o.serial)
      \o ";" \o ToString(o.certainty) \o ";" \o PercentEncode(o.comment)

SignableBytes(o, statement_bytes) == OpinionToString(o) \o statement_bytes

KeypairSign(key, bytes) == [by |-> key, over |-> bytes]

KeyVerify(key, bytes, signature) == signature = [by |-> key, over |-> bytes]

SignUsing(o, statement_bytes, key) ==
    SignedOp(o.date, o.valid, o.serial, o.certainty, o.comment, key,
             KeypairSign(key, SignableBytes(o, statement_bytes)))

VerifySignature(so, statement_bytes) ==
    KeyVerify(so.signer, SignableBytes(so, statement_bytes), so.signature)

DefaultSigningOpinionOn(date) ==
    [date |-> date, valid |-> 30, serial |-> 0, certainty |-> 3, comment |-> ""]

DefaultSigningOpinion == DefaultSigningOpinionOn(Today)

\* ------------------------------------------------------------------- storage

\* The tables statement, opinion and private_key, the two caches of Storage,
\* and `persisted`: the history of the opinions persist_opinion was called
\* with (kept for stating properties; the program does not read it).
EmptyStorage ==
    [statements |-> {}, opinions |-> {}, private_key |-> {},
     templates |-> {}, signers |-> {}, persisted |-> {}]

MaxId(rows) == CHOOSE m \in {r.id : r \in rows} : \A r \in rows : r.id <= m

NextId(rows) == IF rows = {} THEN 1 ELSE MaxId(rows) + 1

MapInsert(map, id, value) ==
    {x \in map : x.id # id} \cup {[id |-> id, value |-> value]}

MapHas(map, id) == \E x \in map : x.id = id

MapGet(map, id) == (CHOOSE x \in map : x.id = id).value

HasMatchingTemplate(st, s) ==
    s.name = "template"
    \/ \E c \in st.templates : MatchesTemplate(s, c.value)

EntityTexts(s) == [i \in 1..Len(s.entities) |-> EntityToString(s.entities[i])]

\* The rows "select id from statement where name=? and entity_1=? [and
\* entity_2=? [and entity_3=? [and entity_4=?]]]" matches, with the values the
\* code binds: the fifth placeholder receives entity_3 again.
SelectStatementRows(st, name, ents) ==
    {r \in st.statements :
        /\ r.name = name
        /\ r.ents[1] = ents[1]
        /\ (Len(ents) >= 2 => (Len(r.ents) >= 2 /\ r.ents[2] = ents[2]))
        /\ (Len(ents) >= 3 => (Len(r.ents) >= 3 /\ r.ents[3] = ents[3]))
        /\ (Len(ents) >= 4 => (Len(r.ents) >= 4 /\ r.ents[4] = ents[3]))}

TextOrder ==
    << "#sha256=u@a.com", "192.0.2.5", "192.0.2.9", "a.com", "b.com",
       "quad(Domain,Domain,Domain,Domain)", "reported(HashValue)",
       "secp256k1:A", "secp256k1:B", "secp256k1:P", "secp256k1:Q",
       "signer(Signer)", "spammer(Domain)", "spammer(IPv4)",
       "template(Template)", "u@a.com" >>

TextRank(ents, i) ==
    IF i > Len(ents) THEN 0
    ELSE CHOOSE k \in 1..Len(TextOrder) : TextOrder[k] = ents[i]

IndexKeyLess(a, b) ==
    \E i \in 1..4 :
        /\ \A j \in 1..(i - 1) : TextRank(a, j) = TextRank(b, j)
        /\ TextRank(a, i) < TextRank(b, i)

\* fetch_optional returns the first row the database produces: the row of
\* least rowid on a table scan, the row of least key on the unique index.
FirstRow(rows, p) ==
    IF p = "rowid"
    THEN CHOOSE r \in rows : \A q \in rows : r.id <= q.id
    ELSE CHOOSE r \in rows : \A q \in rows : q = r \/ IndexKeyLess(r.ents, q.ents)

TrySelectStatement(st, p, name, ents) ==
    LET rows == SelectStatementRows(st, name, ents)
    IN IF rows = {} THEN None ELSE [id |-> FirstRow(rows, p).id]

UniqueViolation(st, name, ents) ==
    \E r \in st.statements : r.name = name /\ r.ents = ents

TryInsertStatement(st, name, ents) ==
    IF UniqueViolation(st, name, ents)
    THEN [ok |-> FALSE, st |-> st, id |-> 0]
    ELSE LET id == NextId(st.statements)
         IN [ok |-> TRUE,
             st |-> [st EXCEPT !.statements =
                        @ \cup {[id |-> id, name |-> name, ents |-> ents]}],
             id |-> id]

PersistErr(st) ==
    [ok |-> FALSE, panic |-> FALSE, st |-> st, id |-> 0, inserted |-> FALSE]

PersistPanic(st) ==
    [ok |-> FALSE, panic |-> TRUE, st |-> st, id |-> 0, inserted |-> FALSE]

PersistOk(st, id, inserted) ==
    [ok |-> TRUE, panic |-> FALSE, st |-> st, id |-> id, inserted |-> inserted]

UpdateCaches(st, s, id) ==
    LET st1 == IF s.name = "template" /\ EntityType(s.entities[1]) = "Template"
               THEN [st EXCEPT !.templates =
                        MapInsert(@, id, TemplateFromStr(s.entities[1].text))]
               ELSE st
    IN IF s.name = "signer" /\ EntityType(s.entities[1]) = "Signer"
       THEN [st1 EXCEPT !.signers = MapInsert(@, id, s.entities[1].text)]
       ELSE st1

Persist(st, p, s) ==
    IF ~HasMatchingTemplate(st, s) THEN PersistErr(st)
    ELSE
      LET ents == EntityTexts(s)
          found == TrySelectStatement(st, p, s.name, ents)
      IN IF found # None
         THEN PersistOk(UpdateCaches(st, s, found.id), found.id, FALSE)
         ELSE LET ins == TryInsertStatement(st, s.name, ents)
              IN IF ins.ok
                 THEN PersistOk(UpdateCaches(ins.st, s, ins.id), ins.id, TRUE)
                 ELSE LET again == TrySelectStatement(st, p, s.name, ents)
                      IN IF again # None
                         THEN PersistOk(UpdateCaches(st, s, again.id), again.id, FALSE)
                         ELSE PersistPanic(st)

OpinionRow(id, statement_id, signer_id, so) ==
    [id |-> id, statement_id |-> statement_id, signer_id |-> signer_id,
     date |-> so.date, valid |-> so.valid, serial |-> so.serial,
     certainty |-> so.certainty, signature |-> so.signature]

PrevOpinionRows(st, statement_id, signer_id) ==
    {o \in st.opinions : o.statement_id = statement_id /\ o.signer_id = signer_id}

OverridesByDateOnly(old, so) == old.date < so.date

Overrides(old, so) ==
    old.date < so.date \/ (old.date = so.date /\ old.serial < so.serial)

Called(st, statement_id, signer_id, so) ==
    [st EXCEPT !.persisted = @ \cup {[statement_id |-> statement_id,
                                      signer_id |-> signer_id,
                                      date |-> so.date, serial |-> so.serial]}]

PersistOpinionKeepingOld(st1, signer_id, so, statement_id) ==
    LET id == NextId(st1.opinions)
    IN PersistOk(
         [Called(st1, statement_id, signer_id, so) EXCEPT !.opinions =
             @ \cup {OpinionRow(id, statement_id, signer_id, so)}],
         id, TRUE)

PersistOpinionAs(st1, signer_id, so, statement_id) ==
    LET prevs == PrevOpinionRows(st1, statement_id, signer_id)
        old == IF prevs = {} THEN None
               ELSE CHOOSE o \in prevs : \A q \in prevs : o.id <= q.id
        st2 == Called(st1, statement_id, signer_id, so)
    IN IF old # None /\ ~Overrides(old, so)
       THEN PersistOk(st2, old.id, FALSE)
       ELSE LET kept == IF old = None THEN st1.opinions
                        ELSE {o \in st1.opinions : o.id # old.id}
                id == NextId(kept)
            IN PersistOk(
                 [st2 EXCEPT !.opinions =
                     kept \cup {OpinionRow(id, statement_id, signer_id, so)}],
                 id, TRUE)

PersistOpinion(st, p, so, statement_id) ==
    Bind(Persist(st, p, StatementSigner(so.signer)),
         LAMBDA signer_result :
            IF ~signer_result.ok THEN PersistPanic(st)
            ELSE PersistOpinionAs(signer_result.st, signer_result.id, so, statement_id))

PersistWithoutOpinion(st, p, s, key, date) == Persist(st, p, s)

\* sign_statement_default on the day `date`.
SignStatementDefaultOn(st, p, s, key, date) ==
    Bind(Persist(st, p, s),
         LAMBDA r :
            IF ~r.ok THEN r
            ELSE PersistOpinion(r.st, p,
                     SignUsing(DefaultSigningOpinionOn(date), StatementToString(s), key),
                     r.id))

SignStatementDefault(st, p, s, key) == SignStatementDefaultOn(st, p, s, key, Today)

OwnKeyOf(st) == (CHOOSE k \in st.private_key : TRUE).key

OwnKey(st, p, fresh) ==
    IF st.private_key # {} THEN [st |-> st, ok |-> TRUE, key |-> OwnKeyOf(st)]
    ELSE Bind(Persist(st, p, StatementSigner(fresh)),
              LAMBDA r :
                 IF ~r.ok THEN [st |-> st, ok |-> FALSE, key |-> fresh]
                 ELSE [st |-> [r.st EXCEPT !.private_key =
                                  {[signer_id |-> r.id, key |-> fresh]}],
                       ok |-> TRUE, key |-> fresh])

ReadTemplates(st) ==
    [st EXCEPT !.templates =
        {x \in @ : ~\E r \in st.statements :
                       r.name = "template" /\ r.id = x.id
                       /\ TemplateFromStr(r.ents[1]) # None}
        \cup {[id |-> r.id, value |-> TemplateFromStr(r.ents[1])] :
                r \in {q \in st.statements :
                         q.name = "template" /\ TemplateFromStr(q.ents[1]) # None}}]

IsSignerText(text) == text \in {KeyA, KeyB, Key1, Key2}

ReadSigners(st) ==
    [st EXCEPT !.signers =
        {x \in @ : ~\E r \in st.statements :
                       r.name = "signer" /\ r.id = x.id /\ IsSignerText(r.ents[1])}
        \cup {[id |-> r.id, value |-> r.ents[1]] :
                r \in {q \in st.statements :
                         q.name = "signer" /\ IsSignerText(q.ents[1])}}]

\* initialize_database on the day `date`.
InitializeDatabaseOn(st, p, fresh, date) ==
    Bind(Persist(st, p, Stmt("template", <<TemplateEntity(TRoot)>>)),
      LAMBDA template_statement :
    Bind(Persist(template_statement.st, p, Stmt("template", <<TemplateEntity(TSigner)>>)),
      LAMBDA signer_statement :
    Bind(OwnKey(signer_statement.st, p, fresh),
      LAMBDA own_key :
    Bind(SignStatementDefaultOn(own_key.st, p,
             Stmt("template", <<TemplateEntity(TRoot)>>), own_key.key, date),
      LAMBDA s1 :
    Bind(SignStatementDefaultOn(s1.st, p,
             Stmt("template", <<TemplateEntity(TSigner)>>), own_key.key, date),
      LAMBDA s2 :
    Bind(ReadTemplates(s2.st), LAMBDA st1 : ReadSigners(st1)))))))

InitializeDatabase(st, p, fresh) == InitializeDatabaseOn(st, p, fresh, Today)

DeleteExpiredInclusive(st, today) ==
    [st EXCEPT !.opinions = {o \in @ : ~(o.date + o.valid <= today)}]

CleanupOpinions(st, today) ==
    [st EXCEPT !.opinions = {o \in @ : ~(o.date + o.valid < today)}]

DeleteUnreferencedByOpinions(st) ==
    [st EXCEPT !.statements =
        {r \in @ : r.id \in {o.statement_id : o \in st.opinions}
                           \cup {o.signer_id : o \in st.opinions}}]

\* Statements that are only the signer of an opinion are deleted too.
DeleteAllButOpinionStatements(st) ==
    [st EXCEPT !.statements =
        {r \in @ : r.id \in {o.statement_id : o \in st.opinions}
                           \cup {k.signer_id : k \in st.private_key}}]

CleanupStatements(st) ==
    [st EXCEPT !.statements =
        {r \in @ : r.id \in {o.statement_id : o \in st.opinions}
                           \cup {o.signer_id : o \in st.opinions}
                           \cup {k.signer_id : k \in st.private_key}}]

Cleanup(st, today) == CleanupStatements(CleanupOpinions(st, today))

\* Storage::new on the tables a previous run left (none on first start): the
\* caches start empty, the database is initialized, then cleaned up.
StorageNew(st, p, fresh, today) ==
    Cleanup(InitializeDatabaseOn([st EXCEPT !.templates = {}, !.signers = {}],
                                 p, fresh, today),
            today)

\* ------------------------------------------------- the storage interface

Nodes == {"A", "B"}

Node == "A"

Keys(n) == IF n = "A" THEN KeyA ELSE KeyB

Single(x) == [n \in Nodes |-> x]

Plans == {"rowid", "index"}

TemplateStatement(t) == Stmt("template", <<TemplateEntity(t)>>)

\* The store Storage::new leaves when the database already holds the
\* templates spammer(Domain) and quad(Domain,Domain,Domain,Domain), signed
\* by the node: nothing has expired, so cleanup deletes nothing.
SeededStorage(p, key) ==
    Bind(InitializeDatabase(EmptyStorage, p, key),
      LAMBDA st0 :
    Bind(SignStatementDefault(st0, p, TemplateStatement(TSpammer), key).st,
      LAMBDA st1 : SignStatementDefault(st1, p, TemplateStatement(TQuad), key).st))

StorageStatements ==
    { TemplateStatement(TRoot),
      TemplateStatement(TSpammer),
      Stmt("template", <<DomA>>),
      Stmt("spammer", <<DomA>>),
      Stmt("spammer", <<DomA, DomB>>),
      Stmt("spammer", <<DomA, DomB, DomA>>),
      Stmt("spammer", <<MailU>>),
      Stmt("quad", <<DomA, DomB, DomA, DomB>>),
      Stmt("quad", <<DomA, DomB, DomA, DomA>>),
      Stmt("quad", <<DomA, DomB, DomB, DomB>>),
      Stmt("unknown", <<DomA>>) }

StorageOpinions ==
    { [date |-> Today - 1, valid |-> 30, serial |-> 0, certainty |-> 3, comment |-> ""],
      [date |-> Today, valid |-> 30, serial |-> 0, certainty |-> 3, comment |-> ""],
      [date |-> Today, valid |-> 30, serial |-> 1, certainty |-> -1, comment |-> ""] }

StorageSigners == {KeyA, Key1, Key2}

\* persist_opinion is called with the id a persist has just returned.
LastStatementId ==
    IF last.op = "persist" /\ last.ok THEN {last.id}
    ELSE IF last.op = "persist_opinion" /\ last.ok THEN {last.sid}
    ELSE {}

RowText(st, id) ==
    LET r == CHOOSE q \in st.statements : q.id = id
    IN r.name \o "(" \o Join(r.ents, ",") \o ")"

Summary(l) ==
    IF l.op = "persist"
    THEN [op |-> l.op, s |-> l.s, ok |-> l.ok, id |-> l.id, inserted |-> l.inserted]
    ELSE IF l.op = "persist_opinion"
    THEN [op |-> l.op, so |-> l.so, sid |-> l.sid, ok |-> l.ok, id |-> l.id,
          inserted |-> l.inserted]
    ELSE [op |-> l.op]

InitCommon ==
    /\ own_infos = Single({})
    /\ sent = Single(<<>>)
    /\ panicked = Single(FALSE)
    /\ steps = 0
    /\ last = [op |-> "init"]
    /\ pc = "idle"
    /\ clock = Today
    /\ milter = <<>>
    /\ queues = NoQueues
    /\ lock = NoLock
    /\ tasks = NoTasks

InitStorage ==
    /\ plan \in Plans
    /\ storage = [n \in Nodes |-> SeededStorage(plan, Keys(n))]
    /\ topics = Single({})
    /\ mt = NotMatching
    /\ InitCommon

StoragePersist ==
    /\ steps < MaxOps
    /\ ~panicked[Node]
    /\ \E s \in StorageStatements :
         \E r \in {Persist(storage[Node], plan, s)} :
            /\ storage' = [storage EXCEPT ![Node] = r.st]
            /\ panicked' = [panicked EXCEPT ![Node] = r.panic]
            /\ last' = [op |-> "persist", s |-> s, ok |-> r.ok, id |-> r.id,
                        inserted |-> r.inserted, pre |-> storage[Node],
                        before |-> Summary(last)]
    /\ steps' = steps + 1
    /\ UNCHANGED <<own_infos, topics, sent, plan, pc, mt, clock, milter, queues, lock, tasks>>

StoragePersistOpinion ==
    /\ steps < MaxOps
    /\ ~panicked[Node]
    /\ \E o \in StorageOpinions, k \in StorageSigners,
          sid \in LastStatementId :
         \E so \in {SignUsing(o, RowText(storage[Node], sid), k)} :
         \E r \in {PersistOpinion(storage[Node], plan, so, sid)} :
            /\ storage' = [storage EXCEPT ![Node] = r.st]
            /\ panicked' = [panicked EXCEPT ![Node] = r.panic]
            /\ last' = [op |-> "persist_opinion", so |-> so, sid |-> sid,
                        ok |-> r.ok, id |-> r.id, inserted |-> r.inserted,
                        pre |-> storage[Node], before |-> Summary(last)]
    /\ steps' = steps + 1
    /\ UNCHANGED <<own_infos, topics, sent, plan, pc, mt, clock, milter, queues, lock, tasks>>

NextStorage == StoragePersist \/ StoragePersistOpinion

SpecStorage == InitStorage /\ [][NextStorage]_vars

\* ------------------------------------------------ properties of the storage

SignerStatementId(st, key) ==
    (CHOOSE r \in st.statements : r.name = "signer" /\ r.ents = <<key>>).id

PairRows(st, statement_id, key) ==
    {o \in st.opinions :
        o.statement_id = statement_id /\ o.signer_id = SignerStatementId(st, key)}

RowHolds(row, so) ==
    /\ row.date = so.date /\ row.valid = so.valid /\ row.serial = so.serial
    /\ row.certainty = so.certainty /\ row.signature = so.signature

Greater(o2, o1) ==
    o2.date > o1.date \/ (o2.date = o1.date /\ o2.serial > o1.serial)

TwoPersistOpinions ==
    /\ last.op = "persist_opinion" /\ last.ok
    /\ last.before.op = "persist_opinion" /\ last.before.ok
    /\ last.before.sid = last.sid
    /\ last.before.so.signer = last.so.signer

RetainsByOrder ==
    LET o1 == last.before.so
        o2 == last.so
        rows == PairRows(storage[Node], last.sid, o2.signer)
    IN /\ Cardinality(rows) = 1
       /\ \A r \in rows :
            IF Greater(o2, o1)
            THEN RowHolds(r, o2) /\ r.id = last.id /\ last.inserted
            ELSE /\ RowHolds(r, o1) /\ r.id = last.before.id
                 /\ last.id = last.before.id /\ ~last.inserted

\* C1 (as amended): after persist_opinion(o1) has stored o1 and then
\* persist_opinion(o2) is called for the same statement id and signer, the
\* store retains o2 iff (o2.date, o2.serial) > (o1.date, o1.serial);
\* otherwise it retains o1 and the second call returns o1's row id with
\* inserted = false.
C1_OverwriteAfterStored ==
    (TwoPersistOpinions /\ last.before.inserted) => RetainsByOrder

C1_Witness ==
    /\ TwoPersistOpinions /\ last.before.inserted
    /\ Greater(last.so, last.before.so)
    /\ last.inserted

\* C1 as stated: the same for any two consecutive calls, whatever the store
\* held for the pair before the first one.
C1_AsStated == TwoPersistOpinions => RetainsByOrder

TwoPersists ==
    /\ last.op = "persist"
    /\ last.before.op = "persist" /\ last.before.ok
    /\ last.before.s = last.s
    /\ Len(last.s.entities) \in 1..4
    /\ \E c \in last.pre.templates : MatchesTemplate(last.s, c.value)

\* C3: persist(x); persist(x) for x with 1 to 4 entities matching a cached
\* template: the second call succeeds, returns the same id with
\* inserted = false, and leaves the number of statement rows unchanged.
C3_PersistIdempotent ==
    TwoPersists =>
        /\ last.ok /\ ~panicked[Node]
        /\ last.id = last.before.id
        /\ ~last.inserted
        /\ Cardinality(storage[Node].statements) = Cardinality(last.pre.statements)

C3_Witness == TwoPersists /\ Len(last.s.entities) = 4 /\ panicked[Node]

\* C4: persist(s) fails and stores nothing whenever no cached template
\* matches s, the root template(template(Template)) being the only exception.
C4_RejectsUnmatched ==
    ( /\ last.op = "persist"
      /\ ~\E c \in last.pre.templates : MatchesTemplate(last.s, c.value)
      /\ last.s # TemplateStatement(TRoot) )
    => (~last.ok /\ ~panicked[Node] /\ storage[Node] = last.pre)

C4_Witness ==
    /\ last.op = "persist" /\ last.ok /\ last.inserted
    /\ last.s = Stmt("template", <<DomA>>)
    /\ ~\E c \in last.pre.templates : MatchesTemplate(last.s, c.value)

\* C6: the row identified by the id persist returns holds exactly the
\* persisted statement: its name and its entities at all four positions.
C6_ReturnedRowIsStatement ==
    (last.op = "persist" /\ last.ok) =>
        \E r \in storage[Node].statements :
            /\ r.id = last.id
            /\ r.name = last.s.name
            /\ r.ents = EntityTexts(last.s)

C6_Witness ==
    /\ last.op = "persist" /\ last.ok /\ ~last.inserted
    /\ last.s = Stmt("spammer", <<DomA>>)
    /\ \E r \in storage[Node].statements :
          r.id = last.id /\ r.ents = <<"a.com", "b.com">>

\* ---------------------------------------------------------------- sync infos

RECURSIVE SetToSeq(_)
SetToSeq(S) ==
    IF S = {} THEN <<>>
    ELSE LET x == CHOOSE y \in S : TRUE
         IN <<x>> \o SetToSeq(S \ {x})

RECURSIVE Flatten(_)
Flatten(seqs) ==
    IF Len(seqs) = 0 THEN <<>> ELSE Head(seqs) \o Flatten(Tail(seqs))

\* The hash is the SHA-256 of the concatenated data: taken to be injective,
\* it is represented by the data it was computed from.
SyncInfoNew(data) == [count |-> Len(data), hash |-> data]

SuggestsUpdateByCount(self, other) == self.count < other.count

SuggestsUpdate(self, other) ==
    self.count < other.count
    \/ (self.count = other.count /\ self.hash # other.hash)

OpinionsNamedOn(st, name, date) ==
    {o \in st.opinions :
        /\ o.date = date
        /\ \E r \in st.statements : r.id = o.statement_id /\ r.name = name}

SortedSignatures(rows) ==
    LET order == SetToSeq({o.signature : o \in rows})
    IN Flatten([i \in 1..Len(order) |->
                  [j \in 1..Cardinality({o \in rows : o.signature = order[i]})
                     |-> order[i]]])

GetSyncInfos(st, date) ==
    LET names == {r.name : r \in {q \in st.statements :
                     \E o \in st.opinions :
                        o.date = date /\ o.statement_id = q.id}}
    IN [date |-> date,
        infos |-> [name \in names |->
                     SyncInfoNew(SortedSignatures(OpinionsNamedOn(st, name, date)))]]

EMailTexts == {"u@a.com"}

HashTexts == {"#sha256=u@a.com"}

IPv4Texts == {"192.0.2.5", "192.0.2.9", "192.0.2.0/24"}

IPv6Texts == {"2001:db8::1", "2001:db8::/32"}

EntityFromStr(text) ==
    IF text \in IPv4Texts THEN Ent("IPv4", text)
    ELSE IF text \in IPv6Texts THEN Ent("IPv6", text)
    ELSE IF text \in EMailTexts THEN Ent("EMail", text)
    ELSE IF text \in HashTexts THEN Ent("HashValue", text)
    ELSE IF TemplateFromStr(text) # None THEN Ent("Template", text)
    ELSE IF IsSignerText(text) THEN Ent("Signer", text)
    ELSE Ent("Domain", text)

RowStatement(r) == Stmt(r.name, [i \in 1..Len(r.ents) |-> EntityFromStr(r.ents[i])])

RowOpinion(st, o) ==
    SignedOp(o.date, o.valid, o.serial, o.certainty, "",
             MapGet(st.signers, o.signer_id), o.signature)

SignedStatement(statement, opinions) ==
    [statement |-> statement, opinions |-> opinions]

RowsById(rows) ==
    LET ids == {r.id : r \in rows}
        Nth(i) == CHOOSE r \in rows :
                     Cardinality({q \in ids : q < r.id}) = i - 1
    IN [i \in 1..Cardinality(ids) |-> Nth(i)]

ListStatementsNamedSigned(st, name, date) ==
    LET rows == {r \in st.statements :
                    /\ r.name = name
                    /\ \E o \in st.opinions : o.statement_id = r.id /\ o.date = date}
        sorted == RowsById(rows)
        OpinionsOf(r) ==
            LET ops == RowsById({o \in st.opinions :
                                    o.statement_id = r.id /\ o.date = date})
            IN [j \in 1..Len(ops) |-> RowOpinion(st, ops[j])]
    IN [i \in 1..Len(sorted) |->
           SignedStatement(RowStatement(sorted[i]), OpinionsOf(sorted[i]))]

ListAllTemplates(st) ==
    LET rows == RowsById({r \in st.statements : r.name = "template"})
    IN [i \in 1..Len(rows) |-> EntityFromStr(rows[i].ents[1])]

\* ---------------------------------------------------------------- sync engine

UpdateOwnInfos(cache, st, date) ==
    LET infos == GetSyncInfos(st, date)
    IN [infos |-> infos,
        cache |-> {c \in cache : c.date # infos.date} \cup {infos}]

GetOwnInfos(cache, st, date) ==
    IF \E c \in cache : c.date = date
    THEN [infos |-> CHOOSE c \in cache : c.date = date, cache |-> cache]
    ELSE UpdateOwnInfos(cache, st, date)

AddInfos(cache, st, infos) ==
    Bind(GetOwnInfos(cache, st, infos.date),
         LAMBDA own :
            [cache |-> own.cache,
             names |-> {key \in DOMAIN infos.infos :
                          IF key \in DOMAIN own.infos.infos
                          THEN SuggestsUpdate(own.infos.infos[key], infos.infos[key])
                          ELSE TRUE}])

FlushOwnInfos == {}

\* ------------------------------------------------------------------ messages

Announcement(infos) == [type |-> "Announcement", infos |-> infos]

OpinionRequest(name, date) == [type |-> "OpinionRequest", name |-> name, date |-> date]

TemplateRequest == [type |-> "TemplateRequest"]

StatementMessage(ss) == [type |-> "Statement", statement |-> ss]

Statements(list) == [type |-> "Statements", list |-> list]

ResponseNone == [type |-> "None"]

PostMessage(peer, request) == [via |-> "rpc", to |-> peer, msg |-> request]

PublishMessage(topic, message) == [via |-> "gossipsub", to |-> topic, msg |-> message]

SendResponse(peer, response) == [via |-> "response", to |-> peer, msg |-> response]

\* ------------------------------------------------------------------ handlers

\* What a handler leaves behind: the store, the digest cache, the subscribed
\* topics, the messages it sent, and whether it panicked.
Outcome(st, cache, tp, out, panic) ==
    [st |-> st, cache |-> cache, topics |-> tp, out |-> out, panic |-> panic]

Topics(st) ==
    LET templates == ListAllTemplates(st)
    IN {IF templates[i].type = "Template"
        THEN TemplateFromStr(templates[i].text).name ELSE "" :
          i \in 1..Len(templates)} \cup {"*announcement"}

RECURSIVE PersistOpinions(_, _, _, _)
PersistOpinions(st, p, opinions, statement_id) ==
    IF Len(opinions) = 0 THEN [st |-> st, panic |-> FALSE]
    ELSE Bind(PersistOpinion(st, p, Head(opinions), statement_id),
              LAMBDA r :
                 IF ~r.ok THEN [st |-> r.st, panic |-> TRUE]
                 ELSE PersistOpinions(r.st, p, Tail(opinions), statement_id))

NewTemplateTopic(r, statement) ==
    IF /\ r.inserted
       /\ statement.name = "template"
       /\ EntityType(statement.entities[1]) = "Template"
    THEN {TemplateFromStr(statement.entities[1].text).name}
    ELSE {}

HandleBroadcastStatement(st, cache, tp, p, ss) ==
    Bind(Persist(st, p, ss.statement),
         LAMBDA r :
            IF r.panic THEN Outcome(r.st, cache, tp, <<>>, TRUE)
            ELSE IF ~r.ok THEN Outcome(st, cache, tp, <<>>, FALSE)
            ELSE Bind(PersistOpinions(r.st, p, ss.opinions, r.id),
                      LAMBDA q :
                         IF q.panic THEN Outcome(q.st, cache, tp, <<>>, TRUE)
                         ELSE Outcome(q.st, FlushOwnInfos,
                                      tp \cup NewTemplateTopic(r, ss.statement),
                                      <<>>, FALSE)))

RECURSIVE PersistSignedStatements(_, _, _)
PersistSignedStatements(st, p, list) ==
    IF Len(list) = 0 THEN [st |-> st, panic |-> FALSE]
    ELSE Bind(Persist(st, p, Head(list).statement),
              LAMBDA r :
                 IF ~r.ok THEN [st |-> r.st, panic |-> TRUE]
                 ELSE Bind(PersistOpinions(r.st, p, Head(list).opinions, r.id),
                           LAMBDA q :
                              IF q.panic THEN q
                              ELSE PersistSignedStatements(q.st, p, Tail(list))))

HandleResponseStatements(st, cache, tp, p, list) ==
    Bind(PersistSignedStatements(st, p, list),
         LAMBDA q :
            IF q.panic THEN Outcome(q.st, cache, tp, <<>>, TRUE)
            ELSE Outcome(q.st, FlushOwnInfos, tp, <<>>, FALSE))

HandleOpinionRequest(st, cache, tp, peer, name, date) ==
    Outcome(st, cache, tp,
            <<SendResponse(peer, Statements(ListStatementsNamedSigned(st, name, date)))>>,
            FALSE)

DefaultOpinion ==
    [date |-> Today, valid |-> 7, serial |-> 0, certainty |-> 3, comment |-> ""]

HandleTemplateRequest(st, cache, tp, peer) ==
    LET entities == ListAllTemplates(st)
        key == OwnKeyOf(st)
        Signed(entity) ==
            SignedStatement(Stmt("template", <<entity>>),
                <<SignUsing(DefaultOpinion,
                            StatementToString(Stmt("template", <<entity>>)), key)>>)
    IN Outcome(st, cache, tp,
               <<SendResponse(peer,
                    Statements([i \in 1..Len(entities) |-> Signed(entities[i])]))>>,
               FALSE)

HandleSendAnnouncement(st, cache, tp, peer) ==
    Bind(GetOwnInfos(cache, st, Today),
      LAMBDA today :
    Bind(GetOwnInfos(today.cache, st, Today - 1),
      LAMBDA yesterday :
         Outcome(st, yesterday.cache, tp,
                 <<PostMessage(peer, Announcement(today.infos)),
                   PostMessage(peer, Announcement(yesterday.infos))>>,
                 FALSE)))

AnnounceInfos(st, cache, tp, date) ==
    Bind(GetOwnInfos(cache, st, date),
         LAMBDA own :
            Outcome(st, own.cache, tp,
                    <<PublishMessage("*announcement", Announcement(own.infos))>>,
                    FALSE))

SignStatement(st, p, statement, id) ==
    Bind(PersistOpinion(st, p,
             SignUsing(DefaultSigningOpinion, StatementToString(statement), OwnKeyOf(st)),
             id),
         LAMBDA r :
            [st |-> r.st, panic |-> ~r.ok,
             signed |-> SignedStatement(statement,
                 <<SignUsing(DefaultSigningOpinion, StatementToString(statement),
                             OwnKeyOf(st))>>)])

HandleUserInput(st, cache, tp, p, what) ==
    LET statement == IF HasMatchingTemplate(st, what) THEN what
                     ELSE StatementHashEmails(what)
    IN Bind(Persist(st, p, statement),
            LAMBDA r :
               IF r.panic THEN Outcome(r.st, cache, tp, <<>>, TRUE)
               ELSE IF ~r.ok THEN Outcome(st, cache, tp, <<>>, FALSE)
               ELSE Bind(SignStatement(r.st, p, statement, r.id),
                         LAMBDA signed :
                            IF signed.panic THEN Outcome(signed.st, cache, tp, <<>>, TRUE)
                            ELSE Outcome(signed.st, cache, tp,
                                    <<PublishMessage(statement.name,
                                          StatementMessage(signed.signed))>>,
                                    FALSE)))

\* The empty line, commands other than sync, queries and lines that do not
\* parse change nothing; a query only reads the store.
HandleOtherInput(st, cache, tp, what) == Outcome(st, cache, tp, <<>>, FALSE)

\* publish_message logs a failed publish and goes on: the message is lost.
Delivered(r, published) ==
    [r EXCEPT !.out = IF published THEN r.out
                      ELSE SelectSeq(r.out, LAMBDA m : m.via # "gossipsub")]

\* A message without a source is skipped; the payload of any other is
\* deserialized with expect, then queued for handle_message.
HandleGossipsubEvent(st, cache, tp, source, data) ==
    IF ~source THEN Outcome(st, cache, tp, <<>>, FALSE)
    ELSE IF data = "garbage" THEN Outcome(st, cache, tp, <<>>, TRUE)
    ELSE Outcome(st, cache, tp, <<>>, FALSE)

PersistStatementHashingEmails(st, p, statement) ==
    IF ~HasMatchingTemplate(st, statement)
    THEN Persist(st, p, StatementHashEmails(statement))
    ELSE Persist(st, p, statement)

\* A panic in the request task ends the request, not the node.
InsertStatement(st, cache, tp, p, statement) ==
    Bind(PersistStatementHashingEmails(st, p, statement),
         LAMBDA r :
            IF ~r.ok THEN Outcome(r.st, cache, tp, <<>>, FALSE)
            ELSE Bind(SignStatementDefault(r.st, p, statement, OwnKeyOf(st)),
                      LAMBDA q : Outcome(q.st, cache, tp, <<>>, FALSE)))

\* ------------------------------------------------------- the node event loop

MaxEvents == 3

Peer == "B"

Dates == {Today - 1, Today}

Op(date, serial, certainty) ==
    [date |-> date, valid |-> 30, serial |-> serial, certainty |-> certainty,
     comment |-> ""]

SignedBy(statement, o, key) == SignUsing(o, StatementToString(statement), key)

\* An opinion that names `key` as its signer and carries a signature made
\* with another key.
Forged(statement, o, key, other) ==
    SignedOp(o.date, o.valid, o.serial, o.certainty, o.comment, key,
             KeypairSign(other, SignableBytes(o, StatementToString(statement))))

SpammerA == Stmt("spammer", <<DomA>>)
SpammerB == Stmt("spammer", <<DomB>>)
SpammerAB == Stmt("spammer", <<DomA, DomB>>)

SSpammerA == SignedStatement(SpammerA, <<SignedBy(SpammerA, Op(Today, 0, 3), Key1)>>)

SSpammerANewer ==
    SignedStatement(SpammerA,
        <<SignedBy(SpammerA, Op(Today, 1, -1), Key1),
          Forged(SpammerA, Op(Today, 0, 3), Key2, Key1)>>)

SSpammerB ==
    SignedStatement(SpammerB, <<SignedBy(SpammerB, Op(Today - 1, 0, 3), Key1)>>)

SSpammerAB ==
    SignedStatement(SpammerAB, <<SignedBy(SpammerAB, Op(Today, 0, 3), Key1)>>)

SReported ==
    SignedStatement(TemplateStatement(TReported),
        <<SignedBy(TemplateStatement(TReported), Op(Today, 0, 3), Key2)>>)

SUnknown == SignedStatement(Stmt("unknown", <<DomA>>), <<>>)

ReceivedStatements ==
    {SSpammerA, SSpammerANewer, SSpammerB, SSpammerAB, SReported, SUnknown}

ReceivedLists ==
    { <<>>, <<SSpammerA>>, <<SSpammerANewer, SSpammerB>>, <<SReported>>, <<SUnknown>> }

UserStatements ==
    {SpammerA, Stmt("spammer", <<MailU>>), Stmt("unknown", <<DomA>>),
     TemplateStatement(TReported)}

\* Input lines that are not statements: the empty line, a query, an unknown
\* command and a line that does not parse.
OtherLines == {"", "?a.com", "!unknown", "spammer("}

\* Payloads of gossipsub messages: a serialized BroadcastMessage or bytes
\* that are not one.
Payloads == {"statement", "announcement", "garbage"}

RequestNames == {"template", "spammer"}

\* The stores of peers, whose digests the node is sent.
PeerStorages ==
    LET same == SeededStorage("rowid", KeyA)
        other == SeededStorage("rowid", KeyB)
        more == HandleBroadcastStatement(same, {}, {}, "rowid", SSpammerA).st
        most == HandleBroadcastStatement(
                    HandleBroadcastStatement(other, {}, {}, "rowid", SSpammerA).st,
                    {}, {}, "rowid", SSpammerB).st
    IN {same, other, more, most}

PeerInfos == {GetSyncInfos(st, date) : st \in PeerStorages, date \in Dates}

Orders(S) ==
    {f \in [1..Cardinality(S) -> S] :
        \A i, j \in 1..Cardinality(S) : f[i] = f[j] => i = j}

Ready == steps < MaxEvents /\ ~panicked[Node] /\ pc = "idle"

Apply(r, record) ==
    /\ storage' = [storage EXCEPT ![Node] = r.st]
    /\ own_infos' = [own_infos EXCEPT ![Node] = r.cache]
    /\ topics' = [topics EXCEPT ![Node] = r.topics]
    /\ sent' = [sent EXCEPT ![Node] = r.out]
    /\ panicked' = [panicked EXCEPT ![Node] = r.panic]
    /\ last' = record
    /\ steps' = steps + 1
    /\ UNCHANGED <<plan, pc, mt, clock, milter, queues, lock, tasks>>

Record(op, input) ==
    [op |-> op, input |-> input, pre |-> storage[Node], pre_cache |-> own_infos[Node]]

OpinionRequests(peer, order, date) ==
    [i \in 1..Len(order) |-> PostMessage(peer, OpinionRequest(order[i], date))]

Init ==
    /\ plan \in Plans
    /\ storage = [n \in Nodes |-> SeededStorage(plan, Keys(n))]
    /\ topics = [n \in Nodes |-> Topics(SeededStorage(plan, Keys(n)))]
    /\ mt = NotMatching
    /\ InitCommon

BroadcastStatement ==
    /\ Ready
    /\ \E ss \in ReceivedStatements :
       \E r \in {HandleBroadcastStatement(storage[Node], own_infos[Node],
                                          topics[Node], plan, ss)} :
          Apply(r, Record("Statement", <<ss>>))

BroadcastAnnouncement ==
    /\ Ready
    /\ \E infos \in PeerInfos :
       \E a \in {AddInfos(own_infos[Node], storage[Node], infos)} :
       \E order \in Orders(a.names) :
          Apply(Outcome(storage[Node], a.cache, topics[Node],
                        OpinionRequests(Peer, order, infos.date), FALSE),
                Record("Announcement", infos))

RequestAnnouncement ==
    /\ Ready
    /\ \E infos \in PeerInfos :
       \E a \in {AddInfos(own_infos[Node], storage[Node], infos)} :
       \E order \in Orders(a.names) :
          Apply(Outcome(storage[Node], a.cache, topics[Node],
                        OpinionRequests(Peer, order, infos.date)
                          \o <<SendResponse(Peer, ResponseNone)>>, FALSE),
                Record("Announcement", infos))

RequestOpinionRequest ==
    /\ Ready
    /\ \E name \in RequestNames, date \in Dates :
          Apply(HandleOpinionRequest(storage[Node], own_infos[Node], topics[Node],
                                     Peer, name, date),
                Record("OpinionRequest", <<name, date>>))

RequestTemplateRequest ==
    /\ Ready
    /\ Apply(HandleTemplateRequest(storage[Node], own_infos[Node], topics[Node], Peer),
             Record("TemplateRequest", <<>>))

ResponseStatements ==
    /\ Ready
    /\ \E list \in ReceivedLists :
       \E r \in {HandleResponseStatements(storage[Node], own_infos[Node],
                                          topics[Node], plan, list)} :
          Apply(r, Record("Statements", list))

ResponseIsNone ==
    /\ Ready
    /\ Apply(Outcome(storage[Node], own_infos[Node], topics[Node], <<>>, FALSE),
             Record("None", <<>>))

SendAnnouncement ==
    /\ Ready
    /\ \E r \in {HandleSendAnnouncement(storage[Node], own_infos[Node],
                                        topics[Node], Peer)} :
          Apply(r, Record("SendAnnouncement", <<>>))

UserInputStatement ==
    /\ Ready
    /\ \E what \in UserStatements, published \in BOOLEAN :
       \E r \in {HandleUserInput(storage[Node], own_infos[Node], topics[Node],
                                 plan, what)} :
          Apply(Delivered(r, published), Record("UserInput", what))

UserInputSync ==
    /\ Ready
    /\ \E date \in Dates, published \in BOOLEAN :
       \E r \in {AnnounceInfos(storage[Node], own_infos[Node], topics[Node], date)} :
          Apply(Delivered(r, published), Record("Sync", date))

UserInputOther ==
    /\ Ready
    /\ \E what \in OtherLines :
          Apply(HandleOtherInput(storage[Node], own_infos[Node], topics[Node], what),
                Record("UserLine", what))

\* The input channel is closed: the select arm breaks out of the loop.
UserInputEnd ==
    /\ Ready
    /\ pc' = "exited"
    /\ last' = Record("EndOfInput", <<>>)
    /\ steps' = steps + 1
    /\ UNCHANGED <<storage, own_infos, topics, sent, plan, panicked, mt, clock, milter, queues,
                 lock, tasks>>

GossipsubMessage ==
    /\ Ready
    /\ \E source \in BOOLEAN, data \in Payloads :
          Apply(HandleGossipsubEvent(storage[Node], own_infos[Node], topics[Node],
                                     source, data),
                Record("Gossipsub", <<source, data>>))

ApiInsertStatement ==
    /\ Ready
    /\ \E statement \in UserStatements :
       \E r \in {InsertStatement(storage[Node], own_infos[Node], topics[Node],
                                 plan, statement)} :
          Apply(r, Record("ApiInsert", statement))

Next ==
    \/ BroadcastStatement
    \/ BroadcastAnnouncement
    \/ RequestAnnouncement
    \/ RequestOpinionRequest
    \/ RequestTemplateRequest
    \/ ResponseStatements
    \/ ResponseIsNone
    \/ SendAnnouncement
    \/ UserInputStatement
    \/ UserInputSync
    \/ UserInputOther
    \/ UserInputEnd
    \/ GossipsubMessage
    \/ ApiInsertStatement

Spec == Init /\ [][Next]_vars

\* --------------------------------------------------- properties of the node

PairOf(o) == <<o.statement_id, o.signer_id>>

OwnDigestBefore(date) ==
    IF \E c \in last.pre_cache : c.date = date
    THEN CHOOSE c \in last.pre_cache : c.date = date
    ELSE GetSyncInfos(last.pre, date)

Wanted(own, infos, name) ==
    \/ name \notin DOMAIN own.infos
    \/ own.infos[name].count < infos.infos[name].count
    \/ /\ own.infos[name].count = infos.infos[name].count
       /\ own.infos[name].hash # infos.infos[name].hash

RequestsSent ==
    {i \in 1..Len(sent[Node]) : sent[Node][i].via = "rpc"}

C9_CachedDigestCurrent ==
    ~panicked[Node] =>
        \A c \in own_infos[Node] : c = GetSyncInfos(storage[Node], c.date)

C9_Witness ==
    /\ last.op \in {"UserInput", "ApiInsert"}
    /\ ~panicked[Node]
    /\ storage[Node].opinions # last.pre.opinions
    /\ \E c \in own_infos[Node] : c # GetSyncInfos(storage[Node], c.date)

ReceivedOpinions ==
    UNION {{[statement |-> last.input[i].statement,
             opinion |-> last.input[i].opinions[j]] :
               j \in 1..Len(last.input[i].opinions)} :
           i \in 1..Len(last.input)}

Verifies(x) == VerifySignature(x.opinion, StatementToString(x.statement))

\* C10: after a Statement broadcast or a Statements response has been
\* handled, no opinion that came in it with a signature that does not verify
\* is in the store.
C10_UnverifiedNeverStored ==
    (last.op \in {"Statement", "Statements"}) =>
        \A x \in ReceivedOpinions :
            ~Verifies(x) =>
                ~\E o \in storage[Node].opinions : o.signature = x.opinion.signature

C10_Witness ==
    /\ last.op = "Statement"
    /\ \E x \in ReceivedOpinions :
          /\ ~Verifies(x)
          /\ \E o \in storage[Node].opinions : o.signature = x.opinion.signature
    /\ \E x \in ReceivedOpinions :
          /\ Verifies(x)
          /\ \E o \in storage[Node].opinions : o.signature = x.opinion.signature

\* C11: in every state of the running node the set of subscribed topics is
\* the set of names of the cached templates plus "*announcement", however a
\* new template statement arrived.
C11_TopicsFollowTemplates ==
    ~panicked[Node] => topics[Node] = Topics(storage[Node])

C11_Witness ==
    /\ last.op \in {"Statements", "UserInput"}
    /\ ~panicked[Node]
    /\ IF last.op = "Statements"
       THEN \E i \in DOMAIN last.input :
               last.input[i].statement = TemplateStatement(TReported)
       ELSE last.input = TemplateStatement(TReported)
    /\ "reported" \in Topics(storage[Node]) \ topics[Node]

\* C12: the node loop neither panics nor returns, whatever broadcasts,
\* requests, responses, publish failures and input lines it is given and
\* also at the end of the local input.
C12_LoopKeepsRunning == ~panicked[Node] /\ pc # "exited"

C12_Witness ==
    /\ panicked[Node]
    /\ last.op = "Statements"
    /\ \E i \in DOMAIN last.input :
          ~HasMatchingTemplate(last.pre, last.input[i].statement)


\* ------------------------------------------------------- template matching

MatchNames == {"abuse", "spammer"}

MatchEntities == {DomA, MailU, Ent("Url", "http://a.com/")}

MatchStatements ==
    {Stmt(name, entities) :
        name \in MatchNames,
        entities \in UNION {[1..k -> MatchEntities] : k \in 1..MaxArity}}

MatchTemplates ==
    { Tmpl("abuse", << <<"Domain">> >>),
      Tmpl("abuse", << <<"Domain">>, <<"EMail", "Url">> >>),
      Tmpl("spammer", << <<"Domain", "EMail">> >>) }

InitMatch ==
    /\ mt \in [s : MatchStatements, t : MatchTemplates,
                done : {FALSE}, result : {FALSE}]
    /\ plan = "rowid"
    /\ storage = Single(EmptyStorage)
    /\ topics = Single({})
    /\ InitCommon

Match ==
    /\ ~mt.done
    /\ mt' = [mt EXCEPT !.done = TRUE, !.result = MatchesTemplate(mt.s, mt.t)]
    /\ UNCHANGED <<storage, own_infos, topics, sent, plan, panicked, steps, last, pc, clock, milter, queues,
                 lock, tasks>>

SpecMatch == InitMatch /\ [][Match]_vars

\* C5: matches_template(s, t) is true iff the names are equal, s has as many
\* entities as t has slots, and the type of every entity is in its slot.
C5_MatchesIff ==
    mt.done =>
        (mt.result <=>
            /\ mt.s.name = mt.t.name
            /\ Len(mt.s.entities) = Len(mt.t.entity_types)
            /\ \A i \in 1..Len(mt.s.entities) :
                  \E k \in 1..Len(mt.t.entity_types[i]) :
                     mt.t.entity_types[i][k] = mt.s.entities[i].type)

C5_Witness ==
    /\ mt.done
    /\ mt.result
    /\ mt.s = Stmt("abuse", <<DomA>>)
    /\ mt.t = Tmpl("abuse", << <<"Domain">>, <<"EMail", "Url">> >>)

\* ---------------------------------------------------- the two-peer exchange

MaxSetup == 3

SyncStatements == {SSpammerA, SSpammerAB, SSpammerB}

ApplyAt(n, r) ==
    /\ storage' = [storage EXCEPT ![n] = r.st]
    /\ own_infos' = [own_infos EXCEPT ![n] = r.cache]
    /\ topics' = [topics EXCEPT ![n] = r.topics]
    /\ panicked' = [panicked EXCEPT ![n] = r.panic]

InitSync ==
    /\ plan \in Plans
    /\ storage = [n \in Nodes |-> SeededStorage(plan, Keys(n))]
    /\ topics = [n \in Nodes |-> Topics(SeededStorage(plan, Keys(n)))]
    /\ mt = NotMatching
    /\ own_infos = Single({})
    /\ sent = Single(<<>>)
    /\ panicked = Single(FALSE)
    /\ steps = 0
    /\ last = [op |-> "init"]
    /\ pc = "setup"
    /\ clock = Today
    /\ milter = <<>>
    /\ queues = NoQueues
    /\ lock = NoLock
    /\ tasks = NoTasks

\* Before the exchange, either peer receives signed statements by gossip.
SyncReceive ==
    /\ pc = "setup"
    /\ steps < MaxSetup
    /\ \E n \in Nodes, ss \in SyncStatements :
       \E r \in {HandleBroadcastStatement(storage[n], own_infos[n], topics[n],
                                          plan, ss)} :
          ApplyAt(n, r)
    /\ steps' = steps + 1
    /\ UNCHANGED <<sent, plan, last, pc, mt, clock, milter, queues, lock, tasks>>

\* A announces its digest for a date.
SyncAnnounce ==
    /\ pc = "setup"
    /\ \E date \in Dates :
       \E r \in {AnnounceInfos(storage["A"], own_infos["A"], topics["A"], date)} :
          /\ ApplyAt("A", r)
          /\ sent' = [sent EXCEPT !["A"] = r.out]
          /\ last' = [op |-> "exchange", date |-> date,
                      a |-> storage["A"], b |-> storage["B"]]
    /\ pc' = "announced"
    /\ UNCHANGED <<plan, steps, mt, clock, milter, queues, lock, tasks>>

\* B handles the announcement and posts its requests to A.
SyncHandleAnnouncement ==
    /\ pc = "announced"
    /\ \E infos \in {Head(sent["A"]).msg.infos} :
       \E a \in {AddInfos(own_infos["B"], storage["B"], infos)} :
       \E order \in Orders(a.names) :
          /\ ApplyAt("B", Outcome(storage["B"], a.cache, topics["B"], <<>>, FALSE))
          /\ sent' = [sent EXCEPT !["A"] = <<>>,
                                  !["B"] = OpinionRequests("A", order, infos.date)]
    /\ pc' = "requested"
    /\ UNCHANGED <<plan, steps, last, mt, clock, milter, queues, lock, tasks>>

\* A answers the oldest request of B.
SyncHandleRequest ==
    /\ pc = "requested"
    /\ Len(sent["B"]) > 0
    /\ \E request \in {Head(sent["B"]).msg} :
       \E r \in {HandleOpinionRequest(storage["A"], own_infos["A"], topics["A"],
                                      "B", request.name, request.date)} :
          /\ ApplyAt("A", r)
          /\ sent' = [sent EXCEPT !["A"] = @ \o r.out, !["B"] = Tail(@)]
    /\ UNCHANGED <<plan, steps, last, pc, mt, clock, milter, queues, lock, tasks>>

\* B handles the oldest response of A.
SyncHandleResponse ==
    /\ pc = "requested"
    /\ Len(sent["A"]) > 0
    /\ ~panicked["B"]
    /\ \E response \in {Head(sent["A"]).msg} :
       \E r \in {HandleResponseStatements(storage["B"], own_infos["B"], topics["B"],
                                          plan, response.list)} :
          /\ ApplyAt("B", r)
          /\ sent' = [sent EXCEPT !["A"] = Tail(@)]
    /\ UNCHANGED <<plan, steps, last, pc, mt, clock, milter, queues, lock, tasks>>

SyncDone ==
    /\ pc = "requested"
    /\ Len(sent["A"]) = 0 /\ Len(sent["B"]) = 0
    /\ ~panicked["B"]
    /\ pc' = "done"
    /\ UNCHANGED <<storage, own_infos, topics, sent, plan, panicked, steps, last, mt, clock, milter, queues,
                 lock, tasks>>

NextSync ==
    \/ SyncReceive
    \/ SyncAnnounce
    \/ SyncHandleAnnouncement
    \/ SyncHandleRequest
    \/ SyncHandleResponse
    \/ SyncDone

SpecSync == InitSync /\ [][NextSync]_vars

Entry(infos, name) ==
    IF name \in DOMAIN infos.infos THEN infos.infos[name] ELSE None

SignaturesOn(st, name, date) == {o.signature : o \in OpinionsNamedOn(st, name, date)}

NamesOf(st) == {r.name : r \in st.statements}

HeldMore(name) ==
    Cardinality(OpinionsNamedOn(last.a, name, last.date))
        > Cardinality(OpinionsNamedOn(last.b, name, last.date))

SameEntry(name) ==
    Entry(GetSyncInfos(storage["A"], last.date), name)
        = Entry(GetSyncInfos(storage["B"], last.date), name)

\* C8: after the exchange for a date d, the get_sync_infos(d) entries of A
\* and B are equal for every name for which A held more opinions dated d
\* than B before the exchange.
C8_ExchangeConverges ==
    (pc = "done") =>
        \A name \in NamesOf(last.a) : HeldMore(name) => SameEntry(name)

\* The exchange has ended on a name for which B held one of the two
\* opinions of A and nothing else, and the entries differ.
C8_Witness ==
    /\ pc = "done"
    /\ \E name \in NamesOf(last.a) :
          /\ HeldMore(name)
          /\ SignaturesOn(last.b, name, last.date) \subseteq
                SignaturesOn(last.a, name, last.date)
          /\ SignaturesOn(last.b, name, last.date) # {}
          /\ ~SameEntry(name)

\* ------------------------------------------------- the life of one store

MaxLife == 4

LifeStatements == {StatementSigner(Key1), TemplateStatement(TSpammer), SpammerA}

\* Opinions that expired yesterday, that expire today, and that last.
LifeOpinions ==
    { [date |-> Today - 1, valid |-> 0, serial |-> 0, certainty |-> 3, comment |-> ""],
      [date |-> Today - 1, valid |-> 1, serial |-> 0, certainty |-> 3, comment |-> ""],
      [date |-> Today, valid |-> 30, serial |-> 0, certainty |-> 3, comment |-> ""] }

LifeSigners == {Key1, Key2}

FreshKeys == {KeyA, KeyB}

Pristine == last.op = "init" \/ last.pristine

LifeReady == steps < MaxLife /\ ~panicked[Node]

LifeRecord(op, pristine) ==
    [op |-> op, pre |-> storage[Node], pristine |-> pristine, today |-> clock]

InitLife ==
    /\ plan \in Plans
    /\ storage = Single(EmptyStorage)
    /\ topics = Single({})
    /\ mt = NotMatching
    /\ own_infos = Single({})
    /\ sent = Single(<<>>)
    /\ panicked = Single(FALSE)
    /\ steps = 0
    /\ last = [op |-> "init"]
    /\ pc = "down"
    /\ clock = Today
    /\ milter = <<>>
    /\ queues = NoQueues
    /\ lock = NoLock
    /\ tasks = NoTasks

\* The node starts, for the first time or again.
LifeNew ==
    /\ LifeReady
    /\ \E fresh \in FreshKeys :
          storage' = [storage EXCEPT ![Node] = StorageNew(@, plan, fresh, clock)]
    /\ pc' = "up"
    /\ last' = LifeRecord("new", Pristine)
    /\ steps' = steps + 1
    /\ UNCHANGED <<own_infos, topics, sent, plan, panicked, mt, clock, milter, queues, lock, tasks>>

LifePersist ==
    /\ LifeReady /\ pc = "up"
    /\ \E s \in LifeStatements :
       \E r \in {Persist(storage[Node], plan, s)} :
          /\ storage' = [storage EXCEPT ![Node] = r.st]
          /\ panicked' = [panicked EXCEPT ![Node] = r.panic]
          /\ last' = [LifeRecord("persist", FALSE) EXCEPT !.op = "persist"]
                        @@ [ok |-> r.ok, id |-> r.id]
    /\ steps' = steps + 1
    /\ UNCHANGED <<own_infos, topics, sent, plan, pc, mt, clock, milter, queues, lock, tasks>>

LifePersistOpinion ==
    /\ LifeReady /\ pc = "up"
    /\ last.op = "persist" /\ last.ok
    /\ \E o \in LifeOpinions, k \in LifeSigners :
       \E so \in {SignUsing(o, RowText(storage[Node], last.id), k)} :
       \E r \in {PersistOpinion(storage[Node], plan, so, last.id)} :
          /\ storage' = [storage EXCEPT ![Node] = r.st]
          /\ panicked' = [panicked EXCEPT ![Node] = r.panic]
          /\ last' = LifeRecord("persist_opinion", FALSE)
    /\ steps' = steps + 1
    /\ UNCHANGED <<own_infos, topics, sent, plan, pc, mt, clock, milter, queues, lock, tasks>>

LifeCleanup ==
    /\ LifeReady /\ pc = "up"
    /\ storage' = [storage EXCEPT ![Node] = Cleanup(@, clock)]
    /\ last' = LifeRecord("cleanup", Pristine)
    /\ steps' = steps + 1
    /\ UNCHANGED <<own_infos, topics, sent, plan, panicked, pc, mt, clock, milter, queues, lock, tasks>>

LifeOwnKey ==
    /\ LifeReady /\ pc = "up"
    /\ \E fresh \in FreshKeys :
       \E r \in {OwnKey(storage[Node], plan, fresh)} :
          /\ storage' = [storage EXCEPT ![Node] = r.st]
          /\ last' = LifeRecord("own_key", Pristine) @@ [ok |-> r.ok, key |-> r.key]
    /\ steps' = steps + 1
    /\ UNCHANGED <<own_infos, topics, sent, plan, panicked, pc, mt, clock, milter, queues, lock, tasks>>

\* Time passes until the opinions signed on the first day have expired.
LifeLater ==
    /\ LifeReady /\ pc = "up"
    /\ clock = Today
    /\ clock' = Today + DefaultSigningOpinion.valid + 1
    /\ last' = LifeRecord("later", Pristine)
    /\ steps' = steps + 1
    /\ UNCHANGED <<storage, own_infos, topics, sent, plan, panicked, pc, mt, milter, queues,
                 lock, tasks>>

NextLife ==
    \/ LifeNew
    \/ LifePersist
    \/ LifePersistOpinion
    \/ LifeCleanup
    \/ LifeOwnKey
    \/ LifeLater

SpecLife == InitLife /\ [][NextLife]_vars

Referenced(st) ==
    {o.statement_id : o \in st.opinions} \cup {o.signer_id : o \in st.opinions}
    \cup {k.signer_id : k \in st.private_key}

Expired(o, today) == o.date + o.valid < today

\* C13: after cleanup() no stored opinion has date + valid < today and every
\* stored statement is the statement or the signer of a remaining opinion or
\* the signer of the private-key row; the opinions that have not expired
\* and the statements so referenced are those the store held before.
C13_CleanupLeavesLiveRows ==
    (last.op = "cleanup") =>
        LET st == storage[Node]
        IN /\ \A o \in st.opinions : ~Expired(o, last.today)
           /\ \A r \in st.statements : r.id \in Referenced(st)
           /\ st.opinions = {o \in last.pre.opinions : ~Expired(o, last.today)}
           /\ st.statements = {r \in last.pre.statements : r.id \in Referenced(st)}
           /\ st.private_key = last.pre.private_key

C13_Witness ==
    /\ last.op = "cleanup"
    /\ \E o \in last.pre.opinions : Expired(o, last.today)
    /\ storage[Node].opinions # {}
    /\ Cardinality(storage[Node].statements) < Cardinality(last.pre.statements)

SignerRowId(st, key) ==
    {r.id : r \in {q \in st.statements : q.name = "signer" /\ q.ents = <<key>>}}

TemplateRowId(st, t) ==
    {r.id : r \in {q \in st.statements :
                      q.name = "template" /\ q.ents = <<TemplateToString(t)>>}}

C20_OneStableKey ==
    (pc = "up") =>
        LET st == storage[Node]
        IN /\ Cardinality(st.private_key) = 1
           /\ \A k \in st.private_key : SignerRowId(st, k.key) = {k.signer_id}
           /\ (last.pre.private_key # {}) => st.private_key = last.pre.private_key
           /\ (last.op = "own_key") => (last.ok /\ last.key = OwnKeyOf(st))

C20_Witness ==
    /\ last.op = "own_key"
    /\ pc = "up"
    /\ \E k \in storage[Node].private_key :
          ~\E o \in storage[Node].opinions :
               k.signer_id \in {o.statement_id, o.signer_id}

\* ------------------------------------------------------- the milter policy

Severities == <<"None", "Quarantine", "Tempfail", "Reject", "Known">>

SeverityRank(severity) == CHOOSE k \in 1..Len(Severities) : Severities[k] = severity

StatementSeverity(s) ==
    IF s.name \in {"spammer", "exploited"} THEN "Reject"
    ELSE IF s.name \in {"spammer_friendly", "dynamic"} THEN "Tempfail"
    ELSE IF s.name = "known" THEN "Known"
    ELSE "None"

Location(kind, key) == [kind |-> kind, key |-> key]

LocationPrefix(location) ==
    CASE location.kind = "ConnectName" -> "connect.client-name"
      [] location.kind = "ConnectAddress" -> "connect.client-addr"
      [] location.kind = "Helo" -> "envelope.helo"
      [] location.kind = "MailFrom" -> "envelope.mail-from"
      [] location.kind = "RcptTo" -> "envelope.rcpt-to"
      [] location.kind = "Header" -> "header." \o location.key
      [] OTHER -> "body"

LocationDisplay(location) ==
    CASE location.kind \in {"ConnectName", "ConnectAddress"} -> "CONNECT"
      [] location.kind = "Helo" -> "HELO"
      [] location.kind = "MailFrom" -> "MAIL FROM"
      [] location.kind = "RcptTo" -> "RCPT TO"
      [] location.kind = "Header" -> "\"" \o location.key \o "\" header"
      [] OTHER -> "BODY"

EntityReason(e) ==
    CASE e.type = "Domain" -> "domain \"" \o e.text \o "\""
      [] e.type = "EMail" -> "address \"" \o e.text \o "\""
      [] e.type = "AS" -> "autonomous system " \o e.text
      [] e.type = "IPv4" -> "IP address " \o e.text
      [] e.type = "IPv6" -> "IPv6 address " \o e.text
      [] e.type = "Signer" -> "signer " \o e.text
      [] e.type = "Url" -> "URL \"" \o e.text \o "\""
      [] e.type = "HashValue" -> "hash value \"" \o e.text \o "\""
      [] OTHER -> "template " \o e.text

StatementReason(s) ==
    EntityToString(s.entities[1]) \o " ("
      \o (CASE s.name = "spammer" -> "reported as spam source"
            [] s.name = "spammer_friendly" -> "listed as spammer-friendly"
            [] s.name = "dynamic" -> "listed as dynamic/anonymous network range"
            [] OTHER -> s.name)
      \o ")"

\* PolicyAccumulator, without its handles on the store and the configuration.
NewAccumulator == [matches |-> <<>>, macros |-> {}, severity |-> "None"]

ResetKeepingMacros(policy) == [policy EXCEPT !.matches = <<>>, !.severity = "None"]

PolicyReset(policy) ==
    [policy EXCEPT !.matches = <<>>, !.macros = {}, !.severity = "None"]

PolicyReason(policy) ==
    LET hits == {i \in 1..Len(policy.matches) :
                    StatementSeverity(policy.matches[i].statement) = policy.severity}
    IN IF hits = {} THEN ""
       ELSE LET m == policy.matches[CHOOSE i \in hits : \A j \in hits : i <= j]
            IN IF m.entity = m.statement.entities[1]
               THEN LocationDisplay(m.location) \o ": " \o StatementReason(m.statement)
               ELSE LocationDisplay(m.location) \o ": " \o EntityReason(m.entity)
                      \o " matches " \o StatementReason(m.statement)

\* ------------------------------------------------------ milter: the store

\* cidr_minmax: first and last address of an IPv4 entity (here its last
\* octet; the hexadecimal strings of the code compare like the numbers).
CidrMinMax(e) ==
    IF e.type # "IPv4" THEN None
    ELSE IF e.text = "192.0.2.5" THEN [min |-> 5, max |-> 5]
    ELSE IF e.text = "192.0.2.0/24" THEN [min |-> 0, max |-> 255]
    ELSE [min |-> 9, max |-> 9]

\* The cidr_min and cidr_max columns are written from the first entity when
\* the row is inserted.
RowCidr(r) == CidrMinMax(EntityFromStr(r.ents[1]))

FindStatementsReferencing(st, entity) ==
    LET probe == CidrMinMax(entity)
        rows == IF probe # None
                THEN {r \in st.statements :
                        /\ RowCidr(r) # None
                        /\ RowCidr(r).min <= probe.min
                        /\ RowCidr(r).max >= probe.max}
                ELSE {r \in st.statements : r.ents[1] = EntityToString(entity)}
        sorted == RowsById(rows)
    IN [i \in 1..Len(sorted) |-> RowStatement(sorted[i])]

\* Entity::domain: the domain of an address, the parent of a domain.
EntityDomain(e) ==
    IF e.type = "EMail" THEN
        IF e.text = "u@a.com" THEN Ent("Domain", "a.com") ELSE Ent("Domain", "b.com")
    ELSE IF e.type = "Domain" /\ e.text \in {"a.com", "b.com"} THEN Ent("Domain", "com.")
    ELSE None

RECURSIVE AllLookupKeys(_)
AllLookupKeys(e) ==
    IF e.type = "EMail"
    THEN <<e, EntityHashEmails(e)>> \o AllLookupKeys(EntityDomain(e))
    ELSE IF e.type = "Domain"
    THEN <<e>> \o (IF EntityDomain(e) # None THEN AllLookupKeys(EntityDomain(e))
                   ELSE <<>>)
    ELSE <<e>>

FindStatementsAbout(st, entity) ==
    LET keys == AllLookupKeys(entity)
        statements == Flatten([i \in 1..Len(keys) |->
                                  FindStatementsReferencing(st, keys[i])])
        asns == SelectSeq(statements, LAMBDA x : x.name = "asn")
    IN statements
         \o Flatten([i \in 1..Len(asns) |->
                        FindStatementsReferencing(st, asns[i].entities[2])])

\* ---------------------------------------------- milter: the configuration

FieldValue(kind, data) == [kind |-> kind, data |-> data]

ListSingle(string) == [kind |-> "Single", arg |-> string]
ListMulti(lists) == [kind |-> "Multi", arg |-> lists]
ListNamed(list) == [kind |-> "Named", arg |-> list]
ListReputation(reputation) == [kind |-> "Reputation", arg |-> reputation]

\* A field reference is kept as the stage prefix and the path that follows it.
FieldRef(prefix, path) == [prefix |-> prefix, path |-> path]

Rule(name, field, list, reject) ==
    [name |-> name, field |-> field, list |-> list, reject |-> reject]

\* A configuration with a rule that checks the connecting address against
\* the reputation list spammer, and one that checks the domain of the
\* envelope sender against a named list.
MilterConfig ==
    [rules |-> << Rule("reject_spammer",
                       <<FieldRef("connect.client-addr", <<>>)>>,
                       ListReputation("spammer"), "Mail from spam source"),
                  Rule("reject_sender",
                       <<FieldRef("envelope.mail-from", <<"domain">>)>>,
                       ListNamed("bad"), "Sender domain listed") >>,
     lists |-> [bad |-> ListMulti(<<ListSingle("b.com"), ListReputation("spammer")>>)]]

PathsMatchingPrefix(rule, prefix) ==
    LET hits == SelectSeq(rule.field, LAMBDA f : f.prefix = prefix)
    IN [i \in 1..Len(hits) |-> hits[i].path]

\* The derivation steps that need no name server.
FieldLookup(value, part) ==
    IF part = "domain" /\ value.kind = "Mail"
    THEN <<FieldValue("Domain", EntityDomain(Ent("EMail", value.data)).text)>>
    ELSE IF part = "localpart" /\ value.kind = "Mail"
    THEN <<FieldValue("Str", "u")>>
    ELSE <<>>

RECURSIVE LookupPath(_, _)
LookupPath(value, path) ==
    IF Len(path) = 0 THEN <<value>>
    ELSE LET next == FieldLookup(value, Head(path))
         IN Flatten([i \in 1..Len(next) |-> LookupPath(next[i], Tail(path))])

RECURSIVE ListMatchesValue(_, _, _, _)
ListMatchesValue(list, value, config, st) ==
    CASE list.kind = "Single" -> value.data = list.arg
      [] list.kind = "Multi" ->
            \E i \in 1..Len(list.arg) : ListMatchesValue(list.arg[i], value, config, st)
      [] list.kind = "Named" ->
            IF list.arg \in DOMAIN config.lists
            THEN ListMatchesValue(config.lists[list.arg], value, config, st)
            ELSE FALSE
      [] OTHER ->
            LET found == FindStatementsAbout(st, EntityFromStr(value.data))
            IN \E i \in 1..Len(found) : found[i].name = list.arg

RuleMatchValue(rule, value, config, st) == ListMatchesValue(rule.list, value, config, st)

\* What a policy method leaves behind: the accumulator, the store, and the
\* rule matches it printed.
Looked(policy, st, printed) == [policy |-> policy, st |-> st, printed |-> printed]

LookupPersisting(policy, st, config, location, value) ==
    Looked(policy, Persist(st, "rowid", StatementSigner(Key2)).st, {})

\* lookup evaluates every rule on the value and prints the matches; it
\* leaves the accumulator as it was.
Lookup(policy, st, config, location, value) ==
    LET prefix == LocationPrefix(location)
        Hit(rule) ==
            \E i \in 1..Len(PathsMatchingPrefix(rule, prefix)) :
               LET values == LookupPath(value, PathsMatchingPrefix(rule, prefix)[i])
               IN \E j \in 1..Len(values) : RuleMatchValue(rule, values[j], config, st)
    IN Looked(policy, st,
              {[rule |-> config.rules[k].name, value |-> value.data,
                location |-> location.kind] :
                  k \in {n \in 1..Len(config.rules) : Hit(config.rules[n])}})

MapPut(map, key, value) ==
    {x \in map : x.key # key} \cup {[key |-> key, value |-> value]}

RECURSIVE PolicyMacros(_, _)
PolicyMacros(policy, nameval) ==
    IF Len(nameval) = 0 THEN policy
    ELSE PolicyMacros([policy EXCEPT !.macros =
                          MapPut(@, Head(nameval)[1], Head(nameval)[2])],
                      Tail(nameval))

PolicyConnect(policy, st, config, data) ==
    Bind(Lookup(policy, st, config, Location("ConnectName", ""),
                FieldValue("Domain", data.hostname)),
      LAMBDA a :
    Bind(Lookup(a.policy, a.st, config, Location("ConnectAddress", ""),
                FieldValue("Ipv4", data.address)),
      LAMBDA b : Looked(b.policy, b.st, a.printed \cup b.printed)))

StripBrackets(s) == IF s = "<u@a.com>" THEN "u@a.com" ELSE s

PolicyHelo(policy, st, config, data) ==
    Lookup(policy, st, config, Location("Helo", ""),
           FieldValue("Domain", StripBrackets(data.helo)))

\* None of the addresses used is in SRS0 form: there is no second lookup.
PolicyMailFrom(policy, st, config, data) ==
    Lookup(policy, st, config, Location("MailFrom", ""),
           FieldValue("Mail", StripBrackets(data.args[1])))

\* Of the headers used, From carries one address and Subject is not looked at.
PolicyHeader(policy, st, config, data) ==
    IF data.name = "From"
    THEN Lookup(policy, st, config, Location("Header", data.name),
                FieldValue("Mail", data.value))
    ELSE Looked(policy, st, {})

\* ------------------------------------------------ milter: the connection

MILTER_VERSION == 6

Continue == [type |-> "Continue"]

VerdictSwappingCodes(policy) ==
    CASE policy.severity = "Known" -> [type |-> "Accept"]
      [] policy.severity = "Reject" ->
            [type |-> "Replycode", smtpcode |-> 457, reason |-> PolicyReason(policy)]
      [] policy.severity = "None" -> Continue
      [] policy.severity = "Quarantine" ->
            [type |-> "Quarantine", reason |-> PolicyReason(policy)]
      [] OTHER ->
            [type |-> "Replycode", smtpcode |-> 554, reason |-> PolicyReason(policy)]

\* The response write_policy_response writes.
PolicyResponse(policy) ==
    CASE policy.severity = "Known" -> [type |-> "Accept"]
      [] policy.severity = "Reject" ->
            [type |-> "Replycode", smtpcode |-> 554, reason |-> PolicyReason(policy)]
      [] policy.severity = "None" -> Continue
      [] policy.severity = "Quarantine" ->
            [type |-> "Quarantine", reason |-> PolicyReason(policy)]
      [] OTHER ->
            [type |-> "Replycode", smtpcode |-> 457, reason |-> PolicyReason(policy)]

\* One connection: the accumulator, whether the output half is closed,
\* whether run() has returned, the rule matches the last command printed,
\* how far the commands received follow MilterScenario (-1: they do not),
\* and the accumulator a fresh connection would hold had it received only
\* the commands that followed the last Optneg, BodyEob or Abort.
NewConnection ==
    [policy |-> NewAccumulator, closed |-> FALSE, ended |-> FALSE,
     printed |-> {}, trace |-> 0, since |-> NewAccumulator]

Handled(conn, st, out, err) == [conn |-> conn, st |-> st, out |-> out, err |-> err]

WriteResponseTwice(conn, st, response) ==
    IF conn.closed THEN Handled(conn, st, <<>>, TRUE)
    ELSE Handled(conn, st, <<response, response>>, FALSE)

\* Writing to the closed output half fails.
WriteResponse(conn, st, response) ==
    IF conn.closed THEN Handled(conn, st, <<>>, TRUE)
    ELSE Handled(conn, st, <<response>>, FALSE)

HandleCommand(conn, st, config, command) ==
    LET After(r) ==
            WriteResponse([conn EXCEPT !.policy = r.policy,
                                       !.printed = @ \cup r.printed],
                          r.st, Continue)
    IN CASE command.type = "Optneg" ->
               WriteResponse([conn EXCEPT !.policy = PolicyReset(@)], st,
                   [type |-> "Optneg",
                    version |-> Min(command.version, MILTER_VERSION),
                    actions |-> command.actions \cap {"SMFIF_QUARANTINE"},
                    protocol |-> {}])
         [] command.type = "Macro" ->
               Handled([conn EXCEPT !.policy = PolicyMacros(@, command.nameval)],
                       st, <<>>, FALSE)
         [] command.type = "Connect" ->
               Bind(PolicyConnect(conn.policy, st, config, command), After)
         [] command.type = "Helo" ->
               Bind(PolicyHelo(conn.policy, st, config, command), After)
         [] command.type = "Mail" ->
               Bind(PolicyMailFrom(conn.policy, st, config, command), After)
         [] command.type \in {"Rcpt", "Eoh"} ->
               WriteResponse(conn, st, PolicyResponse(conn.policy))
         [] command.type = "Header" ->
               Bind(PolicyHeader(conn.policy, st, config, command), After)
         [] command.type = "BodyEob" ->
               WriteResponse([conn EXCEPT !.policy = PolicyReset(@)], st, Continue)
         [] command.type = "Quit" ->
               Handled([conn EXCEPT !.closed = TRUE], st, <<>>, FALSE)
         [] command.type = "Abort" ->
               Handled([conn EXCEPT !.policy = PolicyReset(@)], st, <<>>, FALSE)
         [] OTHER -> WriteResponse(conn, st, Continue)

\* ---------------------------------------------------- milter: the server

MaxCommands == 6

Conns == {1, 2}

Command(type) == [type |-> type]

Optneg(version, actions) == [type |-> "Optneg", version |-> version, actions |-> actions]

Connect(hostname, address) ==
    [type |-> "Connect", hostname |-> hostname, address |-> address]

MilterCommands ==
    { Optneg(6, {"SMFIF_ADDHDRS", "SMFIF_QUARANTINE"}),
      Optneg(2, {"SMFIF_ADDHDRS"}),
      [type |-> "Macro", nameval |-> << <<"i", "Q1">> >>],
      Connect("b.com", "192.0.2.5"),
      Connect("b.com", "192.0.2.9"),
      [type |-> "Helo", helo |-> "b.com"],
      [type |-> "Mail", args |-> <<"<u@a.com>">>],
      [type |-> "Rcpt", args |-> <<"<u@a.com>">>],
      [type |-> "Header", name |-> "From", value |-> "u@a.com"],
      [type |-> "Header", name |-> "Subject", value |-> "b.com"],
      Command("Eoh"), Command("Body"), Command("BodyEob"), Command("Quit"),
      Command("Abort"), Command("Disconnect"), Command("Data"), Command("Unknown") }

\* The exchange of an MTA that has accepted a connection from 192.0.2.5 and
\* is given a first recipient.
MilterScenario ==
    << Optneg(6, {"SMFIF_ADDHDRS", "SMFIF_QUARANTINE"}),
       Connect("b.com", "192.0.2.5"),
       [type |-> "Helo", helo |-> "b.com"],
       [type |-> "Mail", args |-> <<"<u@a.com>">>],
       [type |-> "Rcpt", args |-> <<"<u@a.com>">>] >>

NextTrace(trace, command) ==
    IF trace >= 0 /\ trace < Len(MilterScenario) /\ MilterScenario[trace + 1] = command
    THEN trace + 1
    ELSE -1

SSpammerIp ==
    SignedStatement(Stmt("spammer", <<IpA>>),
        <<SignedBy(Stmt("spammer", <<IpA>>), Op(Today, 0, 3), Key1)>>)

\* The store of a node that knows the template spammer(IPv4) and has
\* received spammer(192.0.2.5) and spammer(a.com), each with an opinion that
\* is valid today.
MilterStorage(p) ==
    Bind(SignStatementDefault(SeededStorage(p, KeyA), p,
                              TemplateStatement(TSpammerIp), KeyA).st,
      LAMBDA st1 :
    Bind(HandleBroadcastStatement(st1, {}, {}, p, SSpammerIp).st,
      LAMBDA st2 : HandleBroadcastStatement(st2, {}, {}, p, SSpammerA).st))

Resets == {"Optneg", "BodyEob", "Abort"}

\* The milter selects no statement by name and entities: the access path of
\* those selects plays no part.
InitMilter ==
    /\ plan = "rowid"
    /\ storage = Single(MilterStorage(plan))
    /\ topics = Single({})
    /\ mt = NotMatching
    /\ InitCommon

MilterReady(c) == steps < MaxCommands /\ c \in DOMAIN milter /\ ~milter[c].ended

\* run_milter accepts a connection and spawns the task that serves it.
MilterAccept ==
    /\ steps < MaxCommands
    /\ \E c \in Conns \ DOMAIN milter :
          /\ milter' = [k \in DOMAIN milter \cup {c} |->
                           IF k = c THEN NewConnection ELSE milter[k]]
          /\ last' = [op |-> "Accept", conn |-> c]
    /\ steps' = steps + 1
    /\ UNCHANGED <<storage, own_infos, topics, sent, plan, panicked, pc, mt, clock, queues,
                 lock, tasks>>

\* One turn of run(): a command is read and handled; an error of the
\* handler ends the task.
MilterCommand ==
    \E c \in Conns, command \in MilterCommands :
       /\ MilterReady(c)
       /\ \E r \in {HandleCommand([milter[c] EXCEPT !.printed = {}], storage[Node],
                                  MilterConfig, command)} :
          \E fresh \in {IF command.type \in Resets THEN NewAccumulator
                        ELSE HandleCommand([NewConnection EXCEPT !.policy = milter[c].since],
                                           storage[Node], MilterConfig, command).conn.policy} :
             /\ milter' = [milter EXCEPT ![c] =
                              [r.conn EXCEPT !.ended = r.err,
                                             !.trace = NextTrace(milter[c].trace, command),
                                             !.since = fresh]]
             /\ storage' = [storage EXCEPT ![Node] = r.st]
             /\ sent' = [sent EXCEPT ![Node] = r.out]
             /\ last' = [op |-> "Command", conn |-> c, command |-> command,
                         pre |-> storage[Node], before |-> milter[c], err |-> r.err]
       /\ steps' = steps + 1
       /\ UNCHANGED <<own_infos, topics, plan, panicked, pc, mt, clock, queues, lock, tasks>>

\* read_command fails (the peer closed the connection, or sent a frame that
\* is no command): run() returns.
MilterReadError ==
    \E c \in Conns :
       /\ MilterReady(c)
       /\ milter' = [milter EXCEPT ![c].ended = TRUE]
       /\ sent' = [sent EXCEPT ![Node] = <<>>]
       /\ last' = [op |-> "ReadError", conn |-> c]
       /\ steps' = steps + 1
       /\ UNCHANGED <<storage, own_infos, topics, plan, panicked, pc, mt, clock, queues, lock, tasks>>

NextMilter ==
    \/ MilterAccept
    \/ MilterCommand
    \/ MilterReadError

SpecMilter == InitMilter /\ [][NextMilter]_vars

\* ------------------------------------------------- milter: the properties

Commanded == last.op = "Command"

ScenarioDone ==
    /\ Commanded
    /\ last.command.type = "Rcpt"
    /\ milter[last.conn].trace = Len(MilterScenario)

\* C14: on a connection that received Optneg, Connect(192.0.2.5), Helo, Mail
\* and Rcpt, with spammer(192.0.2.5) stored with a valid opinion and a rule
\* checking connect.client-addr against the reputation spammer, the response
\* to Rcpt is a Replycode 554 whose reason names the address and says
\* "reported as spam source".
C14_MatchDeterminesVerdict ==
    ScenarioDone =>
        sent[Node] = << [type |-> "Replycode", smtpcode |-> 554,
                         reason |-> "CONNECT: 192.0.2.5 (reported as spam source)"] >>

\* The scenario has run on a store where the rule matches the address; the
\* response to Rcpt is Continue.
C14_Witness ==
    /\ ScenarioDone
    /\ \E r \in storage[Node].statements :
          /\ r.name = "spammer" /\ r.ents = <<"192.0.2.5">>
          /\ \E o \in storage[Node].opinions :
                o.statement_id = r.id /\ o.date + o.valid >= clock
    /\ RuleMatchValue(MilterConfig.rules[1], FieldValue("Ipv4", "192.0.2.5"),
                      MilterConfig, storage[Node])
    /\ sent[Node] = <<Continue>>

\* The responses the protocol description gives each command.
Answers(command, out) ==
    CASE command.type = "Optneg" -> Len(out) = 1 /\ out[1].type = "Optneg"
      [] command.type \in {"Connect", "Helo", "Mail", "Header", "Body", "BodyEob",
                           "Disconnect", "Data", "Unknown"} -> out = <<Continue>>
      [] command.type \in {"Rcpt", "Eoh"} ->
            /\ Len(out) = 1
            /\ out[1].type \in {"Accept", "Replycode", "Quarantine", "Continue"}
      [] OTHER -> out = <<>>

\* C16: on a connection that has received no Quit, each Optneg is answered
\* with one Optneg response, each Connect, Helo, Mail, Header, Body, BodyEob,
\* Disconnect, Data and Unknown with one Continue, each Rcpt and Eoh with one
\* verdict response, and Macro, Abort and Quit with nothing; the response is
\* written before the next command is read.
C16_AnsweredUntilQuit ==
    Commanded /\ ~last.before.closed => Answers(last.command, sent[Node]) /\ ~last.err

\* A command is answered on one connection while the other has received Quit.
C16_Witness ==
    /\ Commanded
    /\ last.command.type = "Connect"
    /\ ~last.before.closed
    /\ sent[Node] = <<Continue>>
    /\ \E c \in DOMAIN milter : c # last.conn /\ milter[c].closed

\* C16 as stated: every command of every sequence is answered as listed.
C16_AsStated == Commanded => Answers(last.command, sent[Node])

\* C17: after Optneg, BodyEob or Abort the accumulator has no matches, no
\* macros and severity None; the accumulator, and with it the verdict for a
\* later Rcpt or Eoh, is the one a fresh connection would have after the
\* commands received since the most recent reset.
C17_ResetForgets ==
    /\ Commanded /\ last.command.type \in Resets =>
          milter[last.conn].policy = NewAccumulator
    /\ \A c \in DOMAIN milter : milter[c].policy = milter[c].since
    /\ Commanded /\ last.command.type \in {"Rcpt", "Eoh"} /\ ~last.err =>
          sent[Node] = <<PolicyResponse(last.before.since)>>

\* A reset arrives on a connection whose accumulator holds a macro.
C17_Witness ==
    /\ Commanded
    /\ last.command.type \in Resets
    /\ last.before.policy.macros # {}
    /\ milter[last.conn].policy.macros = {}

\* C18: no milter command, on either of two concurrent connections, changes
\* the store: its tables are the same before and after the command.
C18_MilterOnlyReads ==
    /\ Commanded => storage[Node] = last.pre
    /\ storage[Node] = MilterStorage(plan)

\* A lookup that found a match has run on one connection while another
\* connection is in the middle of its own exchange.
C18_Witness ==
    /\ Commanded
    /\ milter[last.conn].printed # {}
    /\ \E c \in DOMAIN milter : c # last.conn /\ milter[c].trace >= 1

\* ----------------------------------------------------- milter: the verdict

MaxMatches == 2

PolicyMatch(location, entity, statement) ==
    [location |-> location, entity |-> entity, statement |-> statement]

VerdictMatches ==
    { PolicyMatch(Location("ConnectAddress", ""), IpA, Stmt("spammer", <<IpA>>)),
      PolicyMatch(Location("MailFrom", ""), MailU, Stmt("spammer", <<DomA>>)),
      PolicyMatch(Location("Helo", ""), DomB, Stmt("known", <<DomB>>)),
      PolicyMatch(Location("ConnectAddress", ""), IpB, Stmt("dynamic", <<IpB>>)) }

Accumulators ==
    { [matches |-> m, macros |-> {}, severity |-> Severities[k]] :
         m \in UNION {[1..n -> VerdictMatches] : n \in 0..MaxMatches},
         k \in 1..Len(Severities) }

InitVerdict ==
    /\ plan = "rowid"
    /\ storage = Single(MilterStorage(plan))
    /\ topics = Single({})
    /\ mt = NotMatching
    /\ own_infos = Single({})
    /\ sent = Single(<<>>)
    /\ panicked = Single(FALSE)
    /\ steps = 0
    /\ last = [op |-> "init"]
    /\ pc = "idle"
    /\ clock = Today
    /\ queues = NoQueues
    /\ lock = NoLock
    /\ tasks = NoTasks
    /\ \E policy \in Accumulators :
          milter = [c \in {1} |-> [NewConnection EXCEPT !.policy = policy]]

\* Rcpt or Eoh arrives on a connection whose accumulator is in any state.
VerdictCommand ==
    /\ steps < MaxCommands
    /\ \E command \in {c \in MilterCommands : c.type \in {"Rcpt", "Eoh"}} :
       \E r \in {HandleCommand(milter[1], storage[Node], MilterConfig, command)} :
          /\ milter' = [milter EXCEPT ![1] = r.conn]
          /\ storage' = [storage EXCEPT ![Node] = r.st]
          /\ sent' = [sent EXCEPT ![Node] = r.out]
          /\ last' = [op |-> "Verdict", command |-> command, before |-> milter[1]]
    /\ steps' = steps + 1
    /\ UNCHANGED <<own_infos, topics, plan, panicked, pc, mt, clock, queues, lock, tasks>>

NextVerdict == VerdictCommand

SpecVerdict == InitVerdict /\ [][NextVerdict]_vars

\* C15: the response written for Rcpt and for Eoh follows the severity of
\* the accumulator: Reject gives Replycode 554 with the reason, Tempfail
\* Replycode 457 with the reason, Quarantine a Quarantine with the reason,
\* Known an Accept, None a Continue.
C15_VerdictBySeverity ==
    last.op = "Verdict" =>
        LET severity == last.before.policy.severity
            reason == PolicyReason(last.before.policy)
        IN /\ Len(sent[Node]) = 1
           /\ severity = "Reject" =>
                 sent[Node][1] = [type |-> "Replycode", smtpcode |-> 554, reason |-> reason]
           /\ severity = "Tempfail" =>
                 sent[Node][1] = [type |-> "Replycode", smtpcode |-> 457, reason |-> reason]
           /\ severity = "Quarantine" =>
                 sent[Node][1] = [type |-> "Quarantine", reason |-> reason]
           /\ severity = "Known" => sent[Node][1] = [type |-> "Accept"]
           /\ severity = "None" => sent[Node][1] = [type |-> "Continue"]

\* A Tempfail verdict is written, with the reason of the match that caused it.
C15_Witness ==
    /\ last.op = "Verdict"
    /\ last.before.policy.severity = "Tempfail"
    /\ sent[Node][1].type = "Replycode"
    /\ sent[Node][1].smtpcode = 457
    /\ sent[Node][1].reason = "CONNECT: 192.0.2.9 (listed as dynamic/anonymous network range)"

\* ------------------------------------------- persisting with hashed e-mails

HashingStatements ==
    { SpammerA,
      Stmt("spammer", <<MailU>>),
      Stmt("reported", <<MailU>>),
      Stmt("reported", <<HashString("u@a.com")>>),
      Stmt("template", <<MailU>>),
      Stmt("unknown", <<DomA>>) }

\* The store of a node that also knows the template reported(HashValue).
HashingStorage(p, key) ==
    SignStatementDefault(SeededStorage(p, key), p, TemplateStatement(TReported), key).st

InitHashing ==
    /\ plan \in Plans
    /\ storage = [n \in Nodes |-> HashingStorage(plan, Keys(n))]
    /\ topics = Single({})
    /\ mt = NotMatching
    /\ InitCommon

HashingPersist ==
    /\ steps < MaxOps
    /\ ~panicked[Node]
    /\ \E s \in HashingStatements :
         \E r \in {PersistStatementHashingEmails(storage[Node], plan, s)} :
            /\ storage' = [storage EXCEPT ![Node] = r.st]
            /\ panicked' = [panicked EXCEPT ![Node] = r.panic]
            /\ last' = [op |-> "persist_hashing", s |-> s, ok |-> r.ok, id |-> r.id,
                        inserted |-> r.inserted, pre |-> storage[Node]]
    /\ steps' = steps + 1
    /\ UNCHANGED <<own_infos, topics, sent, plan, pc, mt, clock, milter, queues, lock, tasks>>

NextHashing == HashingPersist

SpecHashing == InitHashing /\ [][NextHashing]_vars

CachedMatch(st, s) == \E c \in st.templates : MatchesTemplate(s, c.value)

RowIs(st, id, s) ==
    \E r \in st.statements : r.id = id /\ r.name = s.name /\ r.ents = EntityTexts(s)

\* C21: persist_statement_hashing_emails(s) persists s unchanged if s matches
\* a cached template; otherwise it persists s with every EMail entity
\* replaced by its HashValue if that statement matches a cached template; if
\* neither form matches, it returns the no-matching-template error and
\* leaves the store as it was.
C21_HashesOnlyWhenNeeded ==
    last.op = "persist_hashing" =>
        IF CachedMatch(last.pre, last.s)
        THEN last.ok /\ RowIs(storage[Node], last.id, last.s)
        ELSE IF CachedMatch(last.pre, StatementHashEmails(last.s))
        THEN last.ok /\ RowIs(storage[Node], last.id, StatementHashEmails(last.s))
        ELSE ~last.ok /\ storage[Node] = last.pre

\* template(u@a.com), which no cached template matches in either form, has
\* been stored with the address in clear.
C21_Witness ==
    /\ last.op = "persist_hashing"
    /\ last.s = Stmt("template", <<MailU>>)
    /\ ~CachedMatch(last.pre, last.s)
    /\ ~CachedMatch(last.pre, StatementHashEmails(last.s))
    /\ last.ok /\ last.inserted
    /\ RowIs(storage[Node], last.id, last.s)

\* ------------------------------------------------------ looking entities up

LookupStatements ==
    << Stmt("listed", <<MailU>>),
       Stmt("listed", <<HashString("u@a.com")>>),
       Stmt("listed", <<DomA>>),
       Stmt("listed", <<Ent("Domain", "com")>>),
       Stmt("listed", <<IpNet>>),
       Stmt("listed", <<IpA>>),
       Stmt("listed", <<Ip6Net>>) >>

LookupEntities ==
    {MailU, HashString("u@a.com"), DomA, DomB, Ent("Domain", "com"), Ent("Domain", "com."),
     IpA, IpB, IpNet, Ip6A, Ip6Net}

RECURSIVE PersistEach(_, _, _)
PersistEach(st, p, statements) ==
    IF Len(statements) = 0 THEN st
    ELSE PersistEach(Persist(st, p, Head(statements)).st, p, Tail(statements))

\* The store of a node that knows the template
\* listed(Domain|EMail|HashValue|IPv4|IPv6) and has persisted some of
\* LookupStatements.
LookupStorage(p, key, chosen) ==
    PersistEach(SignStatementDefault(SeededStorage(p, key), p,
                                     TemplateStatement(TListed), key).st,
                p, SelectSeq(LookupStatements, LAMBDA x : x \in chosen))

InitLookup ==
    /\ plan = "rowid"
    /\ \E chosen \in SUBSET {LookupStatements[i] : i \in 1..Len(LookupStatements)} :
          storage = Single(LookupStorage(plan, KeyA, chosen))
    /\ topics = Single({})
    /\ mt = NotMatching
    /\ InitCommon

\* A query line, or GET /api/entity/{entity}.
LookupAbout ==
    /\ \E e \in LookupEntities :
          last' = [op |-> "about", entity |-> e,
                   found |-> FindStatementsAbout(storage[Node], e)]
    /\ UNCHANGED <<storage, own_infos, topics, sent, plan, panicked, steps, pc, mt, clock,
                   milter, queues, lock, tasks>>

LookupReferencing ==
    /\ \E e \in LookupEntities :
          last' = [op |-> "referencing", entity |-> e,
                   found |-> FindStatementsReferencing(storage[Node], e)]
    /\ UNCHANGED <<storage, own_infos, topics, sent, plan, panicked, steps, pc, mt, clock,
                   milter, queues, lock, tasks>>

NextLookup ==
    \/ LookupAbout
    \/ LookupReferencing

SpecLookup == InitLookup /\ [][NextLookup]_vars

Elements(seq) == {seq[i] : i \in 1..Len(seq)}

\* The domains above an e-mail address: its domain and the suffixes of it
\* that begin after a dot.
ParentDomains(e) ==
    IF e = MailU THEN {DomA, Ent("Domain", "com")} ELSE {}

\* C22: for an e-mail entity e, find_statements_about(e) returns every
\* statement that find_statements_referencing returns for e, for the hashed
\* e, and for each parent domain of e's domain down to the top-level domain.
C22_AboutCoversKeys ==
    last.op = "about" /\ last.entity.type = "EMail" =>
        \A k \in {last.entity, EntityHashEmails(last.entity)} \cup ParentDomains(last.entity) :
           Elements(FindStatementsReferencing(storage[Node], k)) \subseteq Elements(last.found)

\* listed(com) is stored and the query for u@a.com does not return it, while
\* it returns what is stored about the address, its hash and a.com.
C22_Witness ==
    /\ last.op = "about"
    /\ last.entity = MailU
    /\ Stmt("listed", <<Ent("Domain", "com")>>)
          \in Elements(FindStatementsReferencing(storage[Node], Ent("Domain", "com")))
    /\ Stmt("listed", <<Ent("Domain", "com")>>) \notin Elements(last.found)
    /\ {Stmt("listed", <<MailU>>), Stmt("listed", <<HashString("u@a.com")>>),
        Stmt("listed", <<DomA>>)} \subseteq Elements(last.found)

\* Whether the addresses of q are all addresses of r, for two entities of
\* the same family.
Covers(r, q) ==
    \/ r = q
    \/ r = IpNet /\ q \in {IpA, IpB}
    \/ r = Ip6Net /\ q = Ip6A

Stored(st) == {RowStatement(r) : r \in st.statements}

\* C23: for a CIDR entity p, IPv4 or IPv6, find_statements_referencing(p)
\* returns every stored statement whose first entity is a CIDR of the same
\* family covering p; for any other entity it returns exactly the stored
\* statements whose first entity has the same text.
C23_ReferencingFindsCovering ==
    last.op = "referencing" =>
        IF last.entity.type \in {"IPv4", "IPv6"}
        THEN \A s \in Stored(storage[Node]) :
                s.entities[1].type = last.entity.type /\ Covers(s.entities[1], last.entity)
                   => s \in Elements(last.found)
        ELSE Elements(last.found) =
                {s \in Stored(storage[Node]) :
                    EntityToString(s.entities[1]) = EntityToString(last.entity)}

\* listed(2001:db8::/32) is stored and the lookup of 2001:db8::1 returns
\* nothing.
C23_Witness ==
    /\ last.op = "referencing"
    /\ last.entity = Ip6A
    /\ Stmt("listed", <<Ip6Net>>) \in Stored(storage[Node])
    /\ last.found = <<>>

\* ------------------------------------------------- the channels of the node

\* main creates the channel of local input lines with a buffer of 5 and
\* the channel of events for handle_message with a buffer of 100.
InputBuffer == 5

MessageBuffer == 100

\* A futures channel holds its buffer plus one message for each sender;
\* either channel has exactly one sender.
Capacity(buffer) == buffer + 1

MaxQueueSteps == 4

BroadcastEvent(ss) == [type |-> "Broadcast", message |-> StatementMessage(ss)]

RequestEvent(request) == [type |-> "Request", request |-> request]

ResponseEvent(response) == [type |-> "Response", response |-> response]

SendAnnouncementEvent(peer) == [type |-> "SendAnnouncement", peer_id |-> peer]

\* What the swarm delivers: a statement broadcast, a template request and
\* an empty response.
ReceivedEvents ==
    {BroadcastEvent(SSpammerA), RequestEvent(TemplateRequest), ResponseEvent(ResponseNone)}

\* try_send: the message is queued unless the channel is full; when it is
\* full, the caller gets the message back in an error.
TrySend(queue, buffer, message) ==
    IF Len(queue) < Capacity(buffer)
    THEN [queue |-> Append(queue, message), ok |-> TRUE]
    ELSE [queue |-> queue, ok |-> FALSE]

\* handle_connection_established posts the template request at once and
\* leaves the announcements to an event it queues for handle_message; a
\* failure to queue it is logged.
HandleConnectionEstablished(queue, peer, num_connections_with_peer) ==
    LET r == IF num_connections_with_peer = 1
             THEN TrySend(queue, MessageBuffer, SendAnnouncementEvent(peer))
             ELSE [queue |-> queue, ok |-> FALSE]
    IN [queue |-> r.queue, queued |-> r.ok,
        out |-> <<PostMessage(peer, TemplateRequest)>>]

\* handle_message for the events the channel carries here.
HandleMessage(st, cache, tp, p, message) ==
    CASE message.type = "Broadcast" ->
            HandleBroadcastStatement(st, cache, tp, p, message.message.statement)
      [] message.type = "Request" -> HandleTemplateRequest(st, cache, tp, Peer)
      [] message.type = "Response" -> Outcome(st, cache, tp, <<>>, FALSE)
      [] message.type = "SendAnnouncement" ->
            HandleSendAnnouncement(st, cache, tp, message.peer_id)

\* A burst of n broadcasts that arrived while a handler was running.
Backlog(n) == [i \in 1..n |-> BroadcastEvent(SSpammerA)]

Lines(n) == [i \in 1..n |-> ""]

InitQueue ==
    /\ plan = "rowid"
    /\ storage = [n \in Nodes |-> SeededStorage(plan, Keys(n))]
    /\ topics = [n \in Nodes |-> Topics(SeededStorage(plan, Keys(n)))]
    /\ mt = NotMatching
    /\ own_infos = Single({})
    /\ sent = Single(<<>>)
    /\ panicked = Single(FALSE)
    /\ steps = 0
    /\ last = [op |-> "init"]
    /\ pc = "idle"
    /\ clock = Today
    /\ milter = <<>>
    /\ lock = NoLock
    /\ tasks = NoTasks
    /\ \E waiting \in {0, Capacity(MessageBuffer) - 1},
          lines \in {0, Capacity(InputBuffer) - 1} :
          queues = [messages |-> Backlog(waiting), input |-> Lines(lines)]

QueueReady == steps < MaxQueueSteps /\ ~panicked[Node]

\* handle_gossipsub_event and handle_rpc_event hand what they received to
\* handle_message through the channel.
QueueReceive ==
    /\ QueueReady
    /\ \E message \in ReceivedEvents :
       \E r \in {TrySend(queues.messages, MessageBuffer, message)} :
          /\ queues' = [queues EXCEPT !.messages = r.queue]
          /\ last' = [op |-> "Received", event |-> message, queued |-> r.ok]
    /\ sent' = [sent EXCEPT ![Node] = <<>>]
    /\ steps' = steps + 1
    /\ UNCHANGED <<storage, own_infos, topics, plan, panicked, pc, mt, clock, milter, lock, tasks>>

QueueConnectionEstablished ==
    /\ QueueReady
    /\ \E num \in {1, 2} :
       \E r \in {HandleConnectionEstablished(queues.messages, Peer, num)} :
          /\ queues' = [queues EXCEPT !.messages = r.queue]
          /\ sent' = [sent EXCEPT ![Node] = r.out]
          /\ last' = [op |-> "ConnectionEstablished", num |-> num, queued |-> r.queued]
    /\ steps' = steps + 1
    /\ UNCHANGED <<storage, own_infos, topics, plan, panicked, pc, mt, clock, milter, lock, tasks>>

\* The select arm of network_loop that takes the next event.
QueueHandleMessage ==
    /\ QueueReady
    /\ queues.messages # <<>>
    /\ \E r \in {HandleMessage(storage[Node], own_infos[Node], topics[Node], plan,
                               Head(queues.messages))} :
          /\ storage' = [storage EXCEPT ![Node] = r.st]
          /\ own_infos' = [own_infos EXCEPT ![Node] = r.cache]
          /\ topics' = [topics EXCEPT ![Node] = r.topics]
          /\ sent' = [sent EXCEPT ![Node] = r.out]
          /\ panicked' = [panicked EXCEPT ![Node] = r.panic]
    /\ queues' = [queues EXCEPT !.messages = Tail(queues.messages)]
    /\ last' = [op |-> "HandleMessage", event |-> Head(queues.messages)]
    /\ steps' = steps + 1
    /\ UNCHANGED <<plan, pc, mt, clock, milter, lock, tasks>>

\* The input reader awaits send: it goes on only when the line is queued.
QueueInputLine ==
    /\ QueueReady
    /\ Len(queues.input) < Capacity(InputBuffer)
    /\ queues' = [queues EXCEPT !.input = Append(queues.input, "")]
    /\ last' = [op |-> "InputLine", queued |-> TRUE]
    /\ sent' = [sent EXCEPT ![Node] = <<>>]
    /\ steps' = steps + 1
    /\ UNCHANGED <<storage, own_infos, topics, plan, panicked, pc, mt, clock, milter, lock, tasks>>

\* The select arm of network_loop that takes the next line.
QueueHandleInput ==
    /\ QueueReady
    /\ queues.input # <<>>
    /\ \E r \in {HandleOtherInput(storage[Node], own_infos[Node], topics[Node],
                                  Head(queues.input))} :
          /\ storage' = [storage EXCEPT ![Node] = r.st]
          /\ own_infos' = [own_infos EXCEPT ![Node] = r.cache]
          /\ topics' = [topics EXCEPT ![Node] = r.topics]
          /\ sent' = [sent EXCEPT ![Node] = r.out]
          /\ panicked' = [panicked EXCEPT ![Node] = r.panic]
    /\ queues' = [queues EXCEPT !.input = Tail(queues.input)]
    /\ last' = [op |-> "HandleInput"]
    /\ steps' = steps + 1
    /\ UNCHANGED <<plan, pc, mt, clock, milter, lock, tasks>>

NextQueue ==
    \/ QueueReceive
    \/ QueueConnectionEstablished
    \/ QueueHandleMessage
    \/ QueueInputLine
    \/ QueueHandleInput

SpecQueue == InitQueue /\ [][NextQueue]_vars

\* C26: every connection-established event posts one TemplateRequest to the
\* peer; exactly when it is the first connection to the peer, the event that
\* makes the node send its announcements is queued, and handling that event
\* posts the announcement of today and then the one of yesterday.
C26_AnnouncesOnFirstConnection ==
    /\ last.op = "ConnectionEstablished" =>
          /\ sent[Node] = <<PostMessage(Peer, TemplateRequest)>>
          /\ (last.num = 1 <=> last.queued)
    /\ (last.op = "HandleMessage" /\ last.event.type = "SendAnnouncement") =>
          /\ Len(sent[Node]) = 2
          /\ \A i \in 1..2 :
                /\ sent[Node][i].to = last.event.peer_id
                /\ sent[Node][i].msg.type = "Announcement"
                /\ sent[Node][i].msg.infos.date = Today + 1 - i

\* A first connection whose announcements are never sent: the template
\* request went out, the event was refused by the full channel.
C26_Witness ==
    /\ last.op = "ConnectionEstablished"
    /\ last.num = 1
    /\ ~last.queued
    /\ sent[Node] = <<PostMessage(Peer, TemplateRequest)>>
    /\ SendAnnouncementEvent(Peer) \notin Elements(queues.messages)

\* C28: the channel of events never holds more than 100 entries and the
\* channel of input lines never more than 5, and every received broadcast,
\* request, response and SendAnnouncement event is queued for
\* handle_message.
C28_NothingDropped ==
    /\ Len(queues.messages) <= MessageBuffer
    /\ Len(queues.input) <= InputBuffer
    /\ last.op = "Received" => last.queued
    /\ (last.op = "ConnectionEstablished" /\ last.num = 1) =>
          SendAnnouncementEvent(Peer) \in Elements(queues.messages)

\* A received event that is in no queue and was not handled.
C28_Witness ==
    /\ last.op = "Received"
    /\ ~last.queued
    /\ last.event \notin Elements(queues.messages)
    /\ Len(queues.messages) = Capacity(MessageBuffer)

\* ------------------------------------------------- answering TemplateRequest

TemplateDomain == Stmt("template", <<DomA>>)

\* Broadcasts a peer sends before it asks for the templates: two templates,
\* a statement named template whose entity is a domain, and a statement of
\* the seeded template spammer.
TemplateBroadcasts ==
    { SReported,
      SignedStatement(TemplateStatement(TListed),
          <<SignedBy(TemplateStatement(TListed), Op(Today, 0, 3), Key1)>>),
      SignedStatement(TemplateDomain, <<SignedBy(TemplateDomain, Op(Today, 0, 3), Key1)>>),
      SSpammerA }

TemplatesBroadcast ==
    /\ Ready
    /\ \E ss \in TemplateBroadcasts :
       \E r \in {HandleBroadcastStatement(storage[Node], own_infos[Node],
                                          topics[Node], plan, ss)} :
          Apply(r, Record("Statement", <<ss>>))

NextTemplates ==
    \/ TemplatesBroadcast
    \/ RequestTemplateRequest

SpecTemplates == Init /\ [][NextTemplates]_vars

Replied == sent[Node][1].msg.list

\* C27: the reply to TemplateRequest is one Statements response holding one
\* statement template(T) for each cached template T and nothing else, each
\* with one opinion signed by the node's own key that verifies over the
\* statement; the store is as it was before the request.
C27_RepliesCachedTemplates ==
    last.op = "TemplateRequest" =>
       /\ Len(sent[Node]) = 1
       /\ sent[Node][1].via = "response"
       /\ sent[Node][1].msg.type = "Statements"
       /\ {Replied[i].statement : i \in 1..Len(Replied)}
             = {TemplateStatement(c.value) : c \in storage[Node].templates}
       /\ Len(Replied) = Cardinality(storage[Node].templates)
       /\ \A i \in 1..Len(Replied) :
             /\ Len(Replied[i].opinions) = 1
             /\ Replied[i].opinions[1].signer = OwnKeyOf(storage[Node])
             /\ VerifySignature(Replied[i].opinions[1],
                                StatementToString(Replied[i].statement))
       /\ storage[Node] = last.pre

\* A reply that carries template(a.com), which is no cached template.
C27_Witness ==
    /\ last.op = "TemplateRequest"
    /\ Len(sent[Node]) = 1
    /\ \E i \in 1..Len(Replied) : Replied[i].statement = TemplateDomain
    /\ \A c \in storage[Node].templates : TemplateStatement(c.value) # TemplateDomain

\* ------------------------------------------------- statements typed locally

\* The statement handle_user_input stores for the line `what`.
InputStatement(st, what) ==
    IF CachedMatch(st, what) THEN what ELSE StatementHashEmails(what)

OwnOpinionOn(st, statement) ==
    SignUsing(DefaultSigningOpinion, StatementToString(statement), OwnKeyOf(st))

\* The statement is stored with exactly one opinion of the node's own key,
\* the default one of today.
StoredWithOwnOpinion(st, statement) ==
    \E r \in st.statements :
       /\ r.name = statement.name
       /\ r.ents = EntityTexts(statement)
       /\ Cardinality(PairRows(st, r.id, OwnKeyOf(st))) = 1
       /\ \A o \in PairRows(st, r.id, OwnKeyOf(st)) :
             RowHolds(o, OwnOpinionOn(st, statement))

\* C29: a line that is a statement matching a cached template, as typed or
\* with its e-mails hashed, leaves the statement stored with exactly one
\* opinion of the node's own key (today, valid 30, serial 0, certainty 3),
\* and exactly one Statement broadcast carrying that opinion is published on
\* the topic named like the statement.
C29_InputStoredSignedPublished ==
    (/\ last.op = "UserInput"
     /\ CachedMatch(last.pre, InputStatement(last.pre, last.input)))
    => /\ StoredWithOwnOpinion(storage[Node], InputStatement(last.pre, last.input))
       /\ sent[Node] =
            <<PublishMessage(InputStatement(last.pre, last.input).name,
                 StatementMessage(
                    SignedStatement(InputStatement(last.pre, last.input),
                       <<OwnOpinionOn(storage[Node],
                                      InputStatement(last.pre, last.input))>>)))>>

\* spammer(a.com) typed, stored and signed, and nothing published.
C29_Witness ==
    /\ last.op = "UserInput"
    /\ last.input = SpammerA
    /\ CachedMatch(last.pre, SpammerA)
    /\ StoredWithOwnOpinion(storage[Node], SpammerA)
    /\ sent[Node] = <<>>

\* ------------------------------------------------- entities as they are written

\* Text is a sequence of characters, each a string of length one.
Alpha ==
    {"a", "b", "c", "d", "e", "f", "g", "h", "i", "j", "k", "l", "m", "n", "o", "p",
     "q", "r", "s", "t", "u", "v", "w", "x", "y", "z", "A", "B", "C", "D", "E", "F",
     "G", "H", "I", "J", "K", "L", "M", "N", "O", "P", "Q", "R", "S", "T", "U", "V",
     "W", "X", "Y", "Z"}

Digit == {"0", "1", "2", "3", "4", "5", "6", "7", "8", "9"}

Alphanumeric == Alpha \cup Digit

HexDigit == Digit \cup {"A", "B", "C", "D", "E", "F", "a", "b", "c", "d", "e", "f"}

\* A parser answers with the number of characters it consumed, or Fail.
Fail == -1

Take(i, n) == SubSeq(i, 1, n)

Drop(i, n) == SubSeq(i, n + 1, Len(i))

RECURSIVE TakeWhile(_, _)
TakeWhile(set, i) ==
    IF i # <<>> /\ Head(i) \in set THEN 1 + TakeWhile(set, Tail(i)) ELSE 0

\* alpha1, alphanumeric1, digit1, is_a: the longest run of characters of
\* the class, which must not be empty.
Run1(set, i) == Bind(TakeWhile(set, i), LAMBDA n : IF n = 0 THEN Fail ELSE n)

Tag(t, i) == IF Len(i) >= Len(t) /\ Take(i, Len(t)) = t THEN Len(t) ELSE Fail

\* What two parsers in a row consumed.
Then(n, m) ==
    Bind(n, LAMBDA a :
       IF a = Fail THEN Fail ELSE Bind(m, LAMBDA b : IF b = Fail THEN Fail ELSE a + b))

Opt(n) == Bind(n, LAMBDA a : IF a = Fail THEN 0 ELSE a)

RECURSIVE DigitsValue(_, _)
DigitsValue(acc, i) ==
    IF i = <<>> THEN acc
    ELSE DigitsValue(acc * 10 + (CHOOSE d \in 0..9 : ToString(d) = Head(i)), Tail(i))

RECURSIVE NatChars(_)
NatChars(n) ==
    IF n < 10 THEN <<ToString(n)>> ELSE NatChars(n \div 10) \o <<ToString(n % 10)>>

Entity(type, value) == [type |-> type, value |-> value]

NoEntity == [n |-> Fail]

Parsed(n, e) == [n |-> n, entity |-> e]

\* name: alpha1, then letters and underscores.
ParserName(i) ==
    Bind(Run1(Alpha, i),
         LAMBDA first : Then(first, TakeWhile(Alpha \cup {"_"}, Drop(i, Opt(first)))))

\* label: alphanumeric1, many0(alt((alphanumeric1, tag("-")))), opt(alphanumeric1).
ParserLabel(i) ==
    Bind(Run1(Alphanumeric, i),
      LAMBDA first :
         IF first = Fail THEN Fail
         ELSE Bind(TakeWhile(Alphanumeric \cup {"-"}, Drop(i, first)),
                LAMBDA more :
                   first + more + Opt(Run1(Alphanumeric, Drop(i, first + more)))))

\* many0(tuple((label, tag(".")))): stops before the first label that is
\* not followed by a dot.
RECURSIVE ManyLabelDot(_)
ManyLabelDot(i) ==
    Bind(ParserLabel(i),
      LAMBDA label :
         Bind(Then(label, Tag(<<".">>, Drop(i, Opt(label)))),
           LAMBDA n : IF n = Fail THEN 0 ELSE n + ManyLabelDot(Drop(i, n))))

DomainLength(i) ==
    Bind(ManyLabelDot(i), LAMBDA labels : Then(labels, Run1(Alpha, Drop(i, labels))))

ParserDomain(i) ==
    Bind(DomainLength(i),
         LAMBDA n : IF n = Fail THEN NoEntity
                    ELSE Parsed(n, Entity("Domain", Take(i, n))))

\* The characters of is_a in localpart; the grave accent, which no input
\* holds, is left out.
LocalpartChars ==
    {".", "!", "#", "$", "%", "&", "'", "*", "+", "-", "/", "=", "?", "^", "_",
     "{", "|", "}", "~"}

ParserLocalpart(i) == Run1(Alphanumeric \cup LocalpartChars, i)

EmailLength(i) ==
    Bind(ParserLocalpart(i),
      LAMBDA local :
         Bind(Then(local, Tag(<<"@">>, Drop(i, Opt(local)))),
           LAMBDA at : Then(at, DomainLength(Drop(i, Opt(at))))))

ParserEmail(i) ==
    Bind(EmailLength(i),
         LAMBDA n : IF n = Fail THEN NoEntity
                    ELSE Parsed(n, Entity("EMail", Take(i, n))))

ParserBase64(i) ==
    Bind(Run1(Alphanumeric \cup {".", "/", "+"}, i),
         LAMBDA body : Then(body, TakeWhile({"="}, Drop(i, Opt(body)))))

\* The digest of a text in base64. The digest is not computed: it is
\* a text of the base64 alphabet that differs for the texts that differ in
\* their letters, digits and length.
Sha256Base64(text) ==
    <<"h">> \o [k \in 1..Len(text) |->
                   IF text[k] \in Alphanumeric THEN text[k] ELSE "/"] \o <<"=">>

EntityHashString(text) == Entity("HashValue", Sha256Base64(text))

ParserHashValue(i) ==
    IF Tag(<<"#">>, i) = Fail THEN NoEntity
    ELSE Bind(EmailLength(Tail(i)),
           LAMBDA email :
              IF email # Fail
              THEN Parsed(1 + email, EntityHashString(Take(Tail(i), email)))
              ELSE Bind(ParserBase64(Tail(i)),
                     LAMBDA base64 :
                        IF base64 = Fail THEN NoEntity
                        ELSE Parsed(1 + base64,
                                    Entity("HashValue", Take(Tail(i), base64)))))

\* A number of up to nine digits fits u32; the inputs hold no longer one.
U32Digits == 9

ParserAsn(i) ==
    IF Tag(<<"A", "S">>, i) = Fail THEN NoEntity
    ELSE Bind(Run1(Digit, Drop(i, 2)),
           LAMBDA digits :
              IF digits = Fail \/ digits > U32Digits THEN NoEntity
              ELSE Parsed(2 + digits,
                          Entity("AS", DigitsValue(0, SubSeq(i, 3, 2 + digits)))))


\* One octet of an address: up to three digits without a leading zero,
\* at most 255.
Octet(digits) ==
    IF Len(digits) > 3 \/ (Len(digits) > 1 /\ Head(digits) = "0") THEN Fail
    ELSE IF DigitsValue(0, digits) > 255 THEN Fail
    ELSE DigitsValue(0, digits)

Pow2(n) == IF n = 0 THEN 1 ELSE IF n = 1 THEN 2 ELSE IF n = 2 THEN 4
           ELSE IF n = 3 THEN 8 ELSE IF n = 4 THEN 16 ELSE IF n = 5 THEN 32
           ELSE IF n = 6 THEN 64 ELSE IF n = 7 THEN 128 ELSE 256

\* Ipv4Cidr::new refuses an address with bits set behind the prefix.
HostBitsZero(octets, len) ==
    \A k \in 1..4 :
       IF len >= 8 * k THEN TRUE
       ELSE IF len <= 8 * (k - 1) THEN octets[k] = 0
       ELSE octets[k] % Pow2(8 * k - len) = 0

\* The four runs of digits and the prefix length of d.d.d.d[/d], or Fail.
\* digit1 and the dot behind it: the digits, and what both consumed.
DigitsDot(i) ==
    Bind(Run1(Digit, i),
      LAMBDA digits :
         Bind(Then(digits, Tag(<<".">>, Drop(i, Opt(digits)))),
           LAMBDA n : IF n = Fail THEN [n |-> Fail]
                      ELSE [n |-> n, digits |-> Take(i, digits)]))

\* opt(tuple((tag("/"), digit1))): the digits of the prefix length.
SlashDigits(i) ==
    Bind(Then(Tag(<<"/">>, i), Run1(Digit, Drop(i, 1))),
         LAMBDA n : IF n = Fail THEN [n |-> 0, digits |-> <<>>]
                    ELSE [n |-> n, digits |-> SubSeq(i, 2, n)])

Ipv4Parts(i) ==
    Bind(DigitsDot(i), LAMBDA a :
      IF a.n = Fail THEN [n |-> Fail] ELSE
    Bind(DigitsDot(Drop(i, a.n)), LAMBDA b :
      IF b.n = Fail THEN [n |-> Fail] ELSE
    Bind(DigitsDot(Drop(i, a.n + b.n)), LAMBDA c :
      IF c.n = Fail THEN [n |-> Fail] ELSE
    Bind(Run1(Digit, Drop(i, a.n + b.n + c.n)), LAMBDA d :
      IF d = Fail THEN [n |-> Fail] ELSE
    Bind(SlashDigits(Drop(i, a.n + b.n + c.n + d)), LAMBDA len :
      [n |-> a.n + b.n + c.n + d + len.n,
       octets |-> <<a.digits, b.digits, c.digits,
                    SubSeq(i, a.n + b.n + c.n + 1, a.n + b.n + c.n + d)>>,
       len |-> len.digits])))))

Ipv4CidrFromParts(parts) ==
    Bind([k \in 1..4 |-> Octet(parts.octets[k])], LAMBDA octets :
    Bind(IF parts.len = <<>> THEN 32
         ELSE IF Len(parts.len) > 2 THEN Fail
         ELSE DigitsValue(0, parts.len), LAMBDA len :
       IF (\E k \in 1..4 : octets[k] = Fail) \/ len = Fail \/ len > 32 THEN None
       ELSE IF ~HostBitsZero(octets, len) THEN None
       ELSE [octets |-> octets, len |-> len]))

ParserIpv4(i) ==
    Bind(Ipv4Parts(i), LAMBDA parts :
       IF parts.n = Fail THEN NoEntity
       ELSE Bind(Ipv4CidrFromParts(parts), LAMBDA cidr :
               IF cidr = None THEN NoEntity ELSE Parsed(parts.n, Entity("IPv4", cidr))))

Ipv4CidrDisplay(cidr) ==
    NatChars(cidr.octets[1]) \o <<".">> \o NatChars(cidr.octets[2]) \o <<".">>
      \o NatChars(cidr.octets[3]) \o <<".">> \o NatChars(cidr.octets[4])
      \o (IF cidr.len = 32 THEN <<>> ELSE <<"/">> \o NatChars(cidr.len))

Ipv6Cidr(groups, len) == [groups |-> groups, len |-> len]

\* The IPv6 networks of the inputs: how they can be written, and how
\* Ipv6Cidr displays them (groups in lower case, the longest run of zero
\* groups as ::, an IPv4-mapped address with a dotted tail).
Ipv6Written ==
    { [text |-> <<"2", "0", "0", "1", ":", "d", "b", "8", ":", ":", "1">>,
       cidr |-> Ipv6Cidr(<<8193, 3512, 0, 0, 0, 0, 0, 1>>, 128)],
      [text |-> <<"2", "0", "0", "1", ":", "D", "B", "8", ":", "0", ":", "0", ":", "0", ":", "0", ":", "0", ":", "1">>,
       cidr |-> Ipv6Cidr(<<8193, 3512, 0, 0, 0, 0, 0, 1>>, 128)],
      [text |-> <<"2", "0", "0", "1", ":", "d", "b", "8", ":", ":", "/", "3", "2">>,
       cidr |-> Ipv6Cidr(<<8193, 3512, 0, 0, 0, 0, 0, 0>>, 32)],
      [text |-> <<"0", ":", ":", "1">>,
       cidr |-> Ipv6Cidr(<<0, 0, 0, 0, 0, 0, 0, 1>>, 128)],
      [text |-> <<":", ":", "1">>,
       cidr |-> Ipv6Cidr(<<0, 0, 0, 0, 0, 0, 0, 1>>, 128)],
      [text |-> <<"0", ":", "0", ":", "0", ":", "0", ":", "0", ":", "f", "f", "f", "f", ":", "1", "0", "2", ":", "3", "0", "4">>,
       cidr |-> Ipv6Cidr(<<0, 0, 0, 0, 0, 65535, 258, 772>>, 128)],
      [text |-> <<":", ":", "f", "f", "f", "f", ":", "1", ".", "2", ".", "3", ".", "4">>,
       cidr |-> Ipv6Cidr(<<0, 0, 0, 0, 0, 65535, 258, 772>>, 128)],
      [text |-> <<"f", "e", "8", "0", ":", ":", "1">>,
       cidr |-> Ipv6Cidr(<<65152, 0, 0, 0, 0, 0, 0, 1>>, 128)] }

Ipv6Displayed ==
    { [cidr |-> Ipv6Cidr(<<8193, 3512, 0, 0, 0, 0, 0, 1>>, 128), text |-> <<"2", "0", "0", "1", ":", "d", "b", "8", ":", ":", "1">>],
      [cidr |-> Ipv6Cidr(<<8193, 3512, 0, 0, 0, 0, 0, 0>>, 32), text |-> <<"2", "0", "0", "1", ":", "d", "b", "8", ":", ":", "/", "3", "2">>],
      [cidr |-> Ipv6Cidr(<<0, 0, 0, 0, 0, 0, 0, 1>>, 128), text |-> <<":", ":", "1">>],
      [cidr |-> Ipv6Cidr(<<0, 0, 0, 0, 0, 65535, 258, 772>>, 128), text |-> <<":", ":", "f", "f", "f", "f", ":", "1", ".", "2", ".", "3", ".", "4">>],
      [cidr |-> Ipv6Cidr(<<65152, 0, 0, 0, 0, 0, 0, 1>>, 128), text |-> <<"f", "e", "8", "0", ":", ":", "1">>] }

Ipv6CidrFromStr(text) ==
    IF \E w \in Ipv6Written : w.text = text
    THEN (CHOOSE w \in Ipv6Written : w.text = text).cidr
    ELSE None

Ipv6CidrDisplay(cidr) == (CHOOSE d \in Ipv6Displayed : d.cidr = cidr).text

Ipv6Length(i) ==
    Bind(Run1(HexDigit, i), LAMBDA head :
    Bind(Then(head, Run1(HexDigit \cup {":"}, Drop(i, Opt(head)))), LAMBDA body :
       IF body = Fail THEN Fail ELSE body + SlashDigits(Drop(i, body)).n))

ParserIpv6(i) ==
    Bind(Ipv6Length(i), LAMBDA n :
       IF n = Fail THEN NoEntity
       ELSE Bind(Ipv6CidrFromStr(Take(i, n)), LAMBDA cidr :
               IF cidr = None THEN NoEntity ELSE Parsed(n, Entity("IPv6", cidr))))

\* many0(tuple((tag("/"), alt((alphanumeric1, is_a("-_.%+")))))).
RECURSIVE ManyPathSegments(_)
ManyPathSegments(i) ==
    Bind(Then(Tag(<<"/">>, i),
              Bind(Run1(Alphanumeric, Drop(i, 1)),
                   LAMBDA word : IF word # Fail THEN word
                                 ELSE Run1({"-", "_", ".", "%", "+"}, Drop(i, 1)))),
         LAMBDA n : IF n = Fail THEN 0 ELSE n + ManyPathSegments(Drop(i, n)))

UrlLength(i) ==
    Bind(IF Tag(<<"h", "t", "t", "p", "s">>, i) # Fail
         THEN Tag(<<"h", "t", "t", "p", "s">>, i)
         ELSE Tag(<<"h", "t", "t", "p">>, i), LAMBDA scheme :
    Bind(Then(scheme, Tag(<<":", "/", "/">>, Drop(i, Opt(scheme)))), LAMBDA sep :
    Bind(Then(sep, DomainLength(Drop(i, Opt(sep)))), LAMBDA host :
       IF host = Fail THEN Fail ELSE
    Bind(Opt(Then(Tag(<<":">>, Drop(i, host)), Run1(Digit, Drop(i, host + 1)))),
         LAMBDA port : host + port + ManyPathSegments(Drop(i, host + port))))))

ParserUrl(i) ==
    Bind(UrlLength(i),
         LAMBDA n : IF n = Fail THEN NoEntity ELSE Parsed(n, Entity("Url", Take(i, n))))

\* entity_type tries the names in this order.
EntityTypeNames ==
    << [type |-> "Domain", text |-> <<"D", "o", "m", "a", "i", "n">>],
       [type |-> "EMail", text |-> <<"E", "M", "a", "i", "l">>],
       [type |-> "AS", text |-> <<"A", "S">>],
       [type |-> "IPv4", text |-> <<"I", "P", "v", "4">>],
       [type |-> "IPv6", text |-> <<"I", "P", "v", "6">>],
       [type |-> "Signer", text |-> <<"S", "i", "g", "n", "e", "r">>],
       [type |-> "Url", text |-> <<"U", "r", "l">>],
       [type |-> "HashValue", text |-> <<"H", "a", "s", "h", "V", "a", "l", "u", "e">>],
       [type |-> "Template", text |-> <<"T", "e", "m", "p", "l", "a", "t", "e">>] >>

EntityTypeText(type) ==
    EntityTypeNames[CHOOSE k \in 1..Len(EntityTypeNames) :
                       EntityTypeNames[k].type = type].text

ParserEntityType(i) ==
    Bind({k \in 1..Len(EntityTypeNames) : Tag(EntityTypeNames[k].text, i) # Fail},
      LAMBDA hits :
         IF hits = {} THEN [n |-> Fail]
         ELSE Bind(CHOOSE k \in hits : \A h \in hits : k <= h,
                LAMBDA k : [n |-> Len(EntityTypeNames[k].text),
                            type |-> EntityTypeNames[k].type]))

\* separated_list1: an element, then separator and element as long as both
\* are there; a separator without an element behind it is left unread.
RECURSIVE ParserEntityTypeAlternatives(_)
ParserEntityTypeAlternatives(i) ==
    Bind(ParserEntityType(i), LAMBDA first :
       IF first.n = Fail THEN [n |-> Fail] ELSE
    Bind(IF Tag(<<"|">>, Drop(i, first.n)) = Fail THEN [n |-> Fail]
         ELSE ParserEntityTypeAlternatives(Drop(i, first.n + 1)), LAMBDA more :
       IF more.n = Fail THEN [n |-> first.n, list |-> <<first.type>>]
       ELSE [n |-> first.n + 1 + more.n, list |-> <<first.type>> \o more.list]))

RECURSIVE ParserEntityTypes(_)
ParserEntityTypes(i) ==
    Bind(ParserEntityTypeAlternatives(i), LAMBDA first :
       IF first.n = Fail THEN [n |-> Fail] ELSE
    Bind(IF Tag(<<",">>, Drop(i, first.n)) = Fail THEN [n |-> Fail]
         ELSE ParserEntityTypes(Drop(i, first.n + 1)), LAMBDA more :
       IF more.n = Fail THEN [n |-> first.n, list |-> <<first.list>>]
       ELSE [n |-> first.n + 1 + more.n, list |-> <<first.list>> \o more.list]))

Template(name, entity_types) == [name |-> name, entity_types |-> entity_types]

ParserTemplate(i) ==
    Bind(ParserName(i), LAMBDA name :
    Bind(Then(name, Tag(<<"(">>, Drop(i, Opt(name)))), LAMBDA open :
       IF open = Fail THEN NoEntity ELSE
    Bind(ParserEntityTypes(Drop(i, open)), LAMBDA types :
       IF types.n = Fail \/ Tag(<<")">>, Drop(i, open + types.n)) = Fail THEN NoEntity
       ELSE Parsed(open + types.n + 1,
                   Entity("Template", Template(Take(i, name), types.list))))))

RECURSIVE JoinChars(_, _)
JoinChars(texts, sep) ==
    IF texts = <<>> THEN <<>>
    ELSE IF Len(texts) = 1 THEN texts[1]
    ELSE texts[1] \o sep \o JoinChars(Tail(texts), sep)

TemplateDisplay(t) ==
    t.name \o <<"(">>
      \o JoinChars([k \in 1..Len(t.entity_types) |->
                      JoinChars([j \in 1..Len(t.entity_types[k]) |->
                                    EntityTypeText(t.entity_types[k][j])], <<"|">>)],
                   <<",">>)
      \o <<")">>

\* The public keys PublicKey::from_str decodes, as they are written.
KeyTexts ==
    { <<"s", "e", "c", "p", "2", "5", "6", "k", "1", ":", "A">>,
      <<"s", "e", "c", "p", "2", "5", "6", "k", "1", ":", "B">> }

SignerLength(i) ==
    Then(Tag(<<"s", "e", "c", "p", "2", "5", "6", "k", "1", ":">>, i), ParserBase64(Drop(i, 10)))

\* signer: the recognized text is decoded with expect("public key").
ParserSigner(i) ==
    Bind(SignerLength(i), LAMBDA n :
       IF n = Fail THEN NoEntity
       ELSE IF Take(i, n) \notin KeyTexts THEN [n |-> Fail, panic |-> TRUE]
       ELSE Parsed(n, Entity("Signer", Take(i, n))))

Panics(r) == "panic" \in DOMAIN r

\* alt((email, hash_value, template, asn, signer, domain, url, ipv4, ipv6)):
\* the first alternative that succeeds decides.
Decides(r) == r.n # Fail \/ Panics(r)

ParserEntity(i) ==
    Bind(ParserEmail(i), LAMBDA email : IF Decides(email) THEN email ELSE
    Bind(ParserHashValue(i), LAMBDA hash_value : IF Decides(hash_value) THEN hash_value ELSE
    Bind(ParserTemplate(i), LAMBDA template : IF Decides(template) THEN template ELSE
    Bind(ParserAsn(i), LAMBDA asn : IF Decides(asn) THEN asn ELSE
    Bind(ParserSigner(i), LAMBDA signer : IF Decides(signer) THEN signer ELSE
    Bind(ParserDomain(i), LAMBDA domain : IF Decides(domain) THEN domain ELSE
    Bind(ParserUrl(i), LAMBDA url : IF Decides(url) THEN url ELSE
    Bind(ParserIpv4(i), LAMBDA ipv4 : IF Decides(ipv4) THEN ipv4 ELSE
    ParserIpv6(i)))))))))

\* Entity::from_str: all_consuming(parser::entity).
EntityParse(text) ==
    Bind(ParserEntity(text), LAMBDA r :
       IF Panics(r) THEN [ok |-> FALSE, panic |-> TRUE]
       ELSE IF r.n = Len(text) THEN [ok |-> TRUE, panic |-> FALSE, entity |-> r.entity]
       ELSE [ok |-> FALSE, panic |-> FALSE])

\* Display for Entity.
EntityDisplay(e) ==
    CASE e.type = "AS" -> <<"A", "S">> \o NatChars(e.value)
      [] e.type = "IPv4" -> Ipv4CidrDisplay(e.value)
      [] e.type = "IPv6" -> Ipv6CidrDisplay(e.value)
      [] e.type = "HashValue" -> <<"#">> \o e.value
      [] e.type = "Template" -> TemplateDisplay(e.value)
      [] OTHER -> e.value

\* str::find: the place of the first c, 0 when there is none.
Find(text, c) ==
    IF \E k \in 1..Len(text) : text[k] = c
    THEN CHOOSE k \in 1..Len(text) : text[k] = c /\ \A j \in 1..(k - 1) : text[j] # c
    ELSE 0

\* Entity::domain without the dot behind a parent of one label.
DomainWithoutDot(e) ==
    IF e.type = "EMail" THEN Entity("Domain", Drop(e.value, Find(e.value, "@")))
    ELSE IF e.type = "Domain" THEN
        IF Find(e.value, ".") = 0 \/ Find(e.value, ".") = Len(e.value) THEN None
        ELSE Entity("Domain", Drop(e.value, Find(e.value, ".")))
    ELSE None

\* Entity::domain: the domain of an address, the parent of a domain; a
\* parent of one label is written with a dot at its end.
DomainEntity(e) ==
    IF e.type = "EMail" THEN Entity("Domain", Drop(e.value, Find(e.value, "@")))
    ELSE IF e.type = "Domain" THEN
        Bind(Find(e.value, "."), LAMBDA n :
           IF n = 0 \/ n = Len(e.value) THEN None
           ELSE Bind(Drop(e.value, n), LAMBDA super_domain :
                   IF Find(super_domain, ".") = 0
                   THEN Entity("Domain", super_domain \o <<".">>)
                   ELSE Entity("Domain", super_domain)))
    ELSE None

HashEmails(e) == IF e.type = "EMail" THEN EntityHashString(e.value) ELSE e

RECURSIVE LookupKeys(_)
LookupKeys(e) ==
    IF e.type = "EMail" THEN <<e, HashEmails(e)>> \o LookupKeys(DomainEntity(e))
    ELSE IF e.type = "Domain"
    THEN Bind(DomainEntity(e), LAMBDA super_domain :
            <<e>> \o (IF super_domain # None THEN LookupKeys(super_domain) ELSE <<>>))
    ELSE <<e>>

\* ------------------------------------------------- parsing and displaying

MaxText == 5

ShortAlphabet == {"a", "1", ".", "@"}

\* Every text of up to MaxText characters of the short alphabet.
ShortTexts == UNION {[1..n -> ShortAlphabet] : n \in 0..MaxText}

\* Texts of every kind of entity, well-formed and not.
ParseTexts ==
    { <<>>,
      <<"c", "o", "m">>,
      <<"a", ".", "c", "o", "m">>,
      <<"a", ".", "b", ".", "c">>,
      <<"a", "-", "b", ".", "c", "o", "m">>,
      <<"u", "@", "a", ".", "c", "o", "m">>,
      <<"u", "@", "A", "S", "1", ".", "c", "o", "m">>,
      <<"#", "u", "@", "a", ".", "c", "o", "m">>,
      <<"#", "h", "u", "/", "a", "/", "c", "o", "m", "=">>,
      <<"A", "S", "1">>,
      <<"A", "S", "0", "0", "7">>,
      <<"h", "t", "t", "p", ":", "/", "/", "a", ".", "c", "o", "m">>,
      <<"h", "t", "t", "p", "s", ":", "/", "/", "a", ".", "c", "o", "m", ":", "8", "0", "/", "x">>,
      <<"1", ".", "2", ".", "3", ".", "4">>,
      <<"1", "9", "2", ".", "0", ".", "2", ".", "0", "/", "2", "4">>,
      <<"1", "9", "2", ".", "0", ".", "2", ".", "1", "/", "2", "4">>,
      <<"2", "0", "0", "1", ":", "d", "b", "8", ":", ":", "1">>,
      <<"2", "0", "0", "1", ":", "D", "B", "8", ":", "0", ":", "0", ":", "0", ":", "0", ":", "0", ":", "1">>,
      <<"2", "0", "0", "1", ":", "d", "b", "8", ":", ":", "/", "3", "2">>,
      <<"0", ":", ":", "1">>,
      <<"0", ":", "0", ":", "0", ":", "0", ":", "0", ":", "f", "f", "f", "f", ":", "1", "0", "2", ":", "3", "0", "4">>,
      <<"f", "e", "8", "0", ":", ":", "1">>,
      <<":", ":", "1">>,
      <<"s", "e", "c", "p", "2", "5", "6", "k", "1", ":", "A">>,
      <<"s", "e", "c", "p", "2", "5", "6", "k", "1", ":", "x">>,
      <<"s", "p", "a", "m", "m", "e", "r", "(", "D", "o", "m", "a", "i", "n", ")">>,
      <<"l", "i", "s", "t", "e", "d", "(", "D", "o", "m", "a", "i", "n", "|", "E", "M", "a", "i", "l", ",", "I", "P", "v", "4", ")">>,
      <<"x", "(", "D", "o", "m", "a", "i", "n", "|", ")">> }

InitParse ==
    /\ plan = "rowid"
    /\ storage = Single(EmptyStorage)
    /\ topics = Single({})
    /\ mt = NotMatching
    /\ own_infos = Single({})
    /\ sent = Single(<<>>)
    /\ panicked = Single(FALSE)
    /\ steps = 0
    /\ pc = "idle"
    /\ clock = Today
    /\ milter = <<>>
    /\ queues = NoQueues
    /\ lock = NoLock
    /\ tasks = NoTasks
    /\ \E text \in ParseTexts \cup ShortTexts : last = [op |-> "init", text |-> text]

\* text.parse::<Entity>()
ParseFromStr ==
    /\ last.op = "init"
    /\ \E r \in {EntityParse(last.text)} :
          /\ last' = [op |-> "from_str", text |-> last.text, result |-> r]
          /\ panicked' = [panicked EXCEPT ![Node] = r.panic]
    /\ steps' = steps + 1
    /\ UNCHANGED <<storage, own_infos, topics, sent, plan, pc, mt, clock, milter, queues, lock, tasks>>

ParseLookupKeys ==
    /\ last.op = "from_str" /\ last.result.ok
    /\ last' = [op |-> "all_lookup_keys", entity |-> last.result.entity,
                keys |-> LookupKeys(last.result.entity)]
    /\ steps' = steps + 1
    /\ UNCHANGED <<storage, own_infos, topics, sent, plan, panicked, pc, mt, clock, milter,
                   queues, lock, tasks>>

\* An entity the program holds, parsed from a text or a lookup key of such
\* an entity, is displayed and the text parsed again.
ParseRoundTrip ==
    /\ \/ last.op = "from_str" /\ last.result.ok
       \/ last.op = "all_lookup_keys"
    /\ \E e \in IF last.op = "from_str" THEN {last.result.entity}
                ELSE Elements(last.keys) :
       \E r \in {EntityParse(EntityDisplay(e))} :
          /\ last' = [op |-> "round_trip", entity |-> e, text |-> EntityDisplay(e),
                      result |-> r]
          /\ panicked' = [panicked EXCEPT ![Node] = r.panic]
    /\ steps' = steps + 1
    /\ UNCHANGED <<storage, own_infos, topics, sent, plan, pc, mt, clock, milter, queues, lock, tasks>>

NextParse ==
    \/ ParseFromStr
    \/ ParseLookupKeys
    \/ ParseRoundTrip

SpecParse == InitParse /\ [][NextParse]_vars

\* The dots of a domain that have a label behind them.
Dots(v) == {k \in 1..(Len(v) - 1) : v[k] = "."}

NthDot(v, j) == CHOOSE k \in Dots(v) : Cardinality({d \in Dots(v) : d < k}) = j - 1

\* The domain, then each shorter suffix, the one of a single label with a
\* dot at its end.
SuffixKeys(v) ==
    [j \in 1..(Cardinality(Dots(v)) + 1) |->
        IF j = 1 THEN Entity("Domain", v)
        ELSE Entity("Domain",
                    Drop(v, NthDot(v, j - 1))
                      \o (IF j = Cardinality(Dots(v)) + 1 THEN <<".">> ELSE <<>>))]

\* C30: all_lookup_keys of a domain of n labels is the domain followed by
\* its n - 1 shorter suffixes from the longest to the shortest, the suffix
\* of one label written with a dot at its end; of an e-mail address it is
\* the address, its hash, then the keys of its domain; of any other entity
\* it is the entity alone.
C30_LookupKeysShape ==
    last.op = "all_lookup_keys" =>
       CASE last.entity.type = "Domain" -> last.keys = SuffixKeys(last.entity.value)
         [] last.entity.type = "EMail" ->
               last.keys =
                  <<last.entity, Entity("HashValue", Sha256Base64(last.entity.value))>>
                    \o SuffixKeys(Drop(last.entity.value, Find(last.entity.value, "@")))
         [] OTHER -> last.keys = <<last.entity>>

\* The keys of a domain of three labels.
C30_Witness ==
    /\ last.op = "all_lookup_keys"
    /\ last.entity = Entity("Domain", <<"a", ".", "b", ".", "c">>)
    /\ last.keys = <<Entity("Domain", <<"a", ".", "b", ".", "c">>), Entity("Domain", <<"b", ".", "c">>),
                     Entity("Domain", <<"c", ".">>)>>

\* C25: the text of every entity parses, all of it, to the same entity.
C25_DisplayParses ==
    last.op = "round_trip" =>
       /\ last.result.ok
       /\ last.result.entity = last.entity

\* The lookup key of a top-level domain does not parse.
C25_Witness ==
    /\ last.op = "round_trip"
    /\ last.entity = Entity("Domain", <<"c", "o", "m", ".">>)
    /\ last.text = <<"c", "o", "m", ".">>
    /\ ~last.result.ok

\* ------------------------------------------------- opinions as they are written

\* The characters percent_encode escapes, with their codes: the controls
\* (of which the inputs hold the tab), the space, ", comma, ;, ( and ).
EscapeCodes ==
    { [char |-> "\t", code |-> << "0", "9" >>], [char |-> " ", code |-> << "2", "0" >>],
      [char |-> "\"", code |-> << "2", "2" >>], [char |-> ",", code |-> << "2", "C" >>],
      [char |-> ";", code |-> << "3", "B" >>], [char |-> "(", code |-> << "2", "8" >>],
      [char |-> ")", code |-> << "2", "9" >>] }

Escape == {x.char : x \in EscapeCodes}

RECURSIVE Utf8PercentEncode(_)
Utf8PercentEncode(text) ==
    IF text = <<>> THEN <<>>
    ELSE (IF Head(text) \in Escape
          THEN <<"%">> \o (CHOOSE x \in EscapeCodes : x.char = Head(text)).code
          ELSE <<Head(text)>>) \o Utf8PercentEncode(Tail(text))

HexValue(c) ==
    IF c \in Digit THEN DigitsValue(0, <<c>>)
    ELSE CASE c \in {"A", "a"} -> 10 [] c \in {"B", "b"} -> 11 [] c \in {"C", "c"} -> 12
           [] c \in {"D", "d"} -> 13 [] c \in {"E", "e"} -> 14 [] c \in {"F", "f"} -> 15

\* The characters of the inputs and of the escapes, with their ASCII codes.
Ascii ==
    { [char |-> "\t", byte |-> 9], [char |-> " ", byte |-> 32], [char |-> "\"", byte |-> 34],
      [char |-> "%", byte |-> 37], [char |-> "(", byte |-> 40], [char |-> ")", byte |-> 41],
      [char |-> ",", byte |-> 44], [char |-> "3", byte |-> 51], [char |-> ";", byte |-> 59],
      [char |-> "B", byte |-> 66], [char |-> "x", byte |-> 120] }

\* percent_decode_str: % followed by two hex digits stands for the byte
\* they name; everything else stands for itself.
RECURSIVE PercentDecodeStr(_)
PercentDecodeStr(text) ==
    IF text = <<>> THEN <<>>
    ELSE IF Head(text) = "%" /\ Len(text) >= 3 /\ text[2] \in HexDigit /\ text[3] \in HexDigit
    THEN <<16 * HexValue(text[2]) + HexValue(text[3])>> \o PercentDecodeStr(Drop(text, 3))
    ELSE <<(CHOOSE x \in Ascii : x.char = Head(text)).byte>>
           \o PercentDecodeStr(Tail(text))

\* decode_utf8 of bytes that hold no lead byte of a longer sequence: a byte
\* above 127 is then not valid. percent_decode unwraps the result.
PercentDecode(text) ==
    LET bytes == PercentDecodeStr(text)
    IN IF \E k \in 1..Len(bytes) : bytes[k] > 127 THEN [panic |-> TRUE]
       ELSE [panic |-> FALSE,
             text |-> [k \in 1..Len(bytes) |->
                         (CHOOSE x \in Ascii : x.byte = bytes[k]).char]]

IntChars(n) == IF n < 0 THEN <<"-">> \o NatChars(0 - n) ELSE NatChars(n)

Opinion(date, valid, serial, certainty, comment) ==
    [date |-> date, valid |-> valid, serial |-> serial, certainty |-> certainty,
     comment |-> comment]

\* Display for Opinion.
OpinionDisplay(o) ==
    NatChars(o.date) \o <<";">> \o NatChars(o.valid) \o <<";">> \o NatChars(o.serial)
      \o <<";">> \o IntChars(o.certainty) \o <<";">> \o Utf8PercentEncode(o.comment)

RECURSIVE Split(_, _)
Split(text, sep) ==
    IF Find(text, sep) = 0 THEN <<text>>
    ELSE <<Take(text, Find(text, sep) - 1)>> \o Split(Drop(text, Find(text, sep)), sep)

\* str::parse for the integer types: an optional sign (minus for the
\* signed type only), then digits, the value within the range of the type.
ParseInt(text, min, max) ==
    LET signed == text # <<>> /\ Head(text) \in {"+", "-"}
        digits == IF signed THEN Tail(text) ELSE text
        value == IF signed /\ Head(text) = "-" THEN 0 - DigitsValue(0, digits)
                 ELSE DigitsValue(0, digits)
    IN IF digits = <<>> \/ Len(digits) > U32Digits THEN None
       ELSE IF \E k \in 1..Len(digits) : digits[k] \notin Digit THEN None
       ELSE IF signed /\ Head(text) = "-" /\ min = 0 THEN None
       ELSE IF value < min \/ value > max THEN None
       ELSE [value |-> value]

\* FromStr for Opinion.
OpinionFromStr(s) ==
    LET parts == Split(s, ";")
        date == ParseInt(parts[1], 0, 999999999)
        valid == ParseInt(parts[2], 0, 65535)
        serial == ParseInt(parts[3], 0, 255)
        certainty == ParseInt(parts[4], -128, 127)
    IN IF Len(parts) # 5 THEN [ok |-> FALSE, panic |-> FALSE]
       ELSE IF None \in {date, valid, serial, certainty} THEN [ok |-> FALSE, panic |-> FALSE]
       ELSE IF PercentDecode(parts[5]).panic THEN [ok |-> FALSE, panic |-> TRUE]
       ELSE [ok |-> TRUE, panic |-> FALSE,
             opinion |-> Opinion(date.value, valid.value, serial.value, certainty.value,
                                 PercentDecode(parts[5]).text)]

MaxComment == 3

CommentAlphabet == {"x", ";", "%", " ", "3", "B", "\t"}

Comments == UNION {[1..n -> CommentAlphabet] : n \in 0..MaxComment}

WrittenOpinions ==
    {Opinion(date, 30, serial, certainty, comment) :
        date \in {Today, 18924}, serial \in {0, 255}, certainty \in {-3, 3},
        comment \in Comments}

InitOpinion ==
    /\ plan = "rowid"
    /\ storage = Single(EmptyStorage)
    /\ topics = Single({})
    /\ mt = NotMatching
    /\ own_infos = Single({})
    /\ sent = Single(<<>>)
    /\ panicked = Single(FALSE)
    /\ steps = 0
    /\ pc = "idle"
    /\ clock = Today
    /\ milter = <<>>
    /\ queues = NoQueues
    /\ lock = NoLock
    /\ tasks = NoTasks
    /\ \E o \in WrittenOpinions : last = [op |-> "init", opinion |-> o]

OpinionToText ==
    /\ last.op = "init"
    /\ last' = [op |-> "display", opinion |-> last.opinion,
                text |-> OpinionDisplay(last.opinion)]
    /\ steps' = steps + 1
    /\ UNCHANGED <<storage, own_infos, topics, sent, plan, panicked, pc, mt, clock, milter,
                   queues, lock, tasks>>

OpinionFromText ==
    /\ last.op = "display"
    /\ \E r \in {OpinionFromStr(last.text)} :
          /\ last' = [op |-> "from_str", opinion |-> last.opinion, text |-> last.text,
                      result |-> r]
          /\ panicked' = [panicked EXCEPT ![Node] = r.panic]
    /\ steps' = steps + 1
    /\ UNCHANGED <<storage, own_infos, topics, sent, plan, pc, mt, clock, milter, queues, lock, tasks>>

NextOpinion ==
    \/ OpinionToText
    \/ OpinionFromText

SpecOpinion == InitOpinion /\ [][NextOpinion]_vars

\* C24: parsing the canonical form of an opinion gives the opinion back,
\* whatever its comment holds, and the encoded comment holds no ';'.
C24_CanonicalFormParsesBack ==
    last.op = "from_str" =>
       /\ last.result.ok
       /\ last.result.opinion = last.opinion
       /\ ";" \notin Elements(Utf8PercentEncode(last.opinion.comment))

\* The comment %3B is written as it is and read back as ';'.
C24_Witness ==
    /\ last.op = "from_str"
    /\ last.opinion.comment = <<"%", "3", "B">>
    /\ last.text = NatChars(last.opinion.date) \o <<";", "3", "0", ";">>
                     \o NatChars(last.opinion.serial) \o <<";">>
                     \o IntChars(last.opinion.certainty) \o <<";", "%", "3", "B">>
    /\ last.result.ok
    /\ last.result.opinion.comment = <<";">>

\* ------------------------------------------- milter: collecting the matches

MaxLookups == 3

\* old_lookup: the statements about the entity written in `what` are added
\* to the matches and raise the severity; a dynamic range counts only for
\* the connecting client.  Text that is no entity is passed over.
RECURSIVE OldLookupEach(_, _, _, _)
OldLookupEach(policy, location, entity, statements) ==
    IF Len(statements) = 0 THEN policy
    ELSE OldLookupEach(
            IF \/ location.kind \in {"ConnectName", "ConnectAddress"}
               \/ Head(statements).name # "dynamic"
            THEN [policy EXCEPT
                    !.severity =
                        IF SeverityRank(StatementSeverity(Head(statements)))
                              > SeverityRank(@)
                        THEN StatementSeverity(Head(statements)) ELSE @,
                    !.matches = Append(@, PolicyMatch(location, entity, Head(statements)))]
            ELSE policy,
            location, entity, Tail(statements))

\* The severity raised for every statement found, the match kept only where
\* old_lookup keeps it.
OldLookupRaisingAlways(policy, st, location, what) ==
    IF what = "" THEN policy
    ELSE Bind(FindStatementsAbout(st, EntityFromStr(what)),
           LAMBDA statements :
              [OldLookupEach(policy, location, EntityFromStr(what), statements)
                 EXCEPT !.severity =
                    IF \E i \in 1..Len(statements) :
                          SeverityRank(StatementSeverity(statements[i])) > SeverityRank(@)
                    THEN StatementSeverity(
                            statements[CHOOSE i \in 1..Len(statements) :
                               \A j \in 1..Len(statements) :
                                  SeverityRank(StatementSeverity(statements[i]))
                                     >= SeverityRank(StatementSeverity(statements[j]))])
                    ELSE @])

OldLookup(policy, st, location, what) ==
    IF what = "" THEN policy
    ELSE OldLookupEach(policy, location, EntityFromStr(what),
                       FindStatementsAbout(st, EntityFromStr(what)))

SDynamicIp ==
    SignedStatement(Stmt("dynamic", <<IpB>>),
        <<SignedBy(Stmt("dynamic", <<IpB>>), Op(Today, 0, 3), Key1)>>)

SKnownDomain ==
    SignedStatement(Stmt("known", <<DomB>>),
        <<SignedBy(Stmt("known", <<DomB>>), Op(Today, 0, 3), Key1)>>)

\* The store of the milter, which also knows the templates dynamic(IPv4)
\* and known(Domain) and holds dynamic(192.0.2.9) and known(b.com).
AccumulateStorage(p) ==
    Bind(SignStatementDefault(MilterStorage(p), p,
            TemplateStatement(TDynamic), KeyA).st,
      LAMBDA st1 :
    Bind(SignStatementDefault(st1, p,
            TemplateStatement(TKnown), KeyA).st,
      LAMBDA st2 :
    Bind(HandleBroadcastStatement(st2, {}, {}, p, SDynamicIp).st,
      LAMBDA st3 : HandleBroadcastStatement(st3, {}, {}, p, SKnownDomain).st)))

LookedUpLocations ==
    {Location("ConnectAddress", ""), Location("Helo", ""), Location("MailFrom", "")}

LookedUpTexts == {"192.0.2.5", "192.0.2.9", "b.com", "u@a.com", "c.org", ""}

InitAccumulate ==
    /\ plan = "rowid"
    /\ storage = Single(AccumulateStorage(plan))
    /\ topics = Single({})
    /\ mt = NotMatching
    /\ own_infos = Single({})
    /\ sent = Single(<<>>)
    /\ panicked = Single(FALSE)
    /\ steps = 0
    /\ last = [op |-> "init"]
    /\ pc = "idle"
    /\ clock = Today
    /\ queues = NoQueues
    /\ lock = NoLock
    /\ tasks = NoTasks
    /\ milter = [c \in {1} |-> NewConnection]

\* old_lookup is called for a value found in a stage of the dialogue.
AccumulateOldLookup ==
    /\ steps < MaxLookups
    /\ \E location \in LookedUpLocations, what \in LookedUpTexts :
          /\ milter' = [milter EXCEPT ![1].policy =
                           OldLookup(@, storage[Node], location, what)]
          /\ last' = [op |-> "old_lookup", location |-> location, what |-> what,
                      before |-> milter[1].policy]
    /\ steps' = steps + 1
    /\ UNCHANGED <<storage, own_infos, topics, sent, plan, panicked, pc, mt, clock, queues,
                 lock, tasks>>

\* lookup is called for the address of the connecting client.
AccumulateLookup ==
    /\ steps < MaxLookups
    /\ \E what \in {"192.0.2.5", "192.0.2.9"} :
       \E r \in {Lookup(milter[1].policy, storage[Node], MilterConfig,
                        Location("ConnectAddress", ""), FieldValue("Ipv4", what))} :
          /\ milter' = [milter EXCEPT ![1].policy = r.policy,
                                      ![1].printed = r.printed]
          /\ last' = [op |-> "lookup", what |-> what, before |-> milter[1].policy]
    /\ steps' = steps + 1
    /\ UNCHANGED <<storage, own_infos, topics, sent, plan, panicked, pc, mt, clock, queues,
                 lock, tasks>>

AccumulateReset ==
    /\ steps < MaxLookups
    /\ milter' = [milter EXCEPT ![1].policy = PolicyReset(@)]
    /\ last' = [op |-> "reset", before |-> milter[1].policy]
    /\ steps' = steps + 1
    /\ UNCHANGED <<storage, own_infos, topics, sent, plan, panicked, pc, mt, clock, queues,
                 lock, tasks>>

NextAccumulate ==
    \/ AccumulateOldLookup
    \/ AccumulateLookup
    \/ AccumulateReset

SpecAccumulate == InitAccumulate /\ [][NextAccumulate]_vars

\* The greatest severity among the statements of the matches, None for none.
RECURSIVE MaxSeverity(_)
MaxSeverity(matches) ==
    IF Len(matches) = 0 THEN "None"
    ELSE Bind(MaxSeverity(Tail(matches)),
           LAMBDA rest :
              IF SeverityRank(StatementSeverity(Head(matches).statement))
                    >= SeverityRank(rest)
              THEN StatementSeverity(Head(matches).statement) ELSE rest)

\* C31: the severity of the accumulator is the greatest severity of the
\* statements of its matches, in the order None < Quarantine < Tempfail <
\* Reject < Known, None without matches; and a lookup never lowers it.
C31_SeverityIsMaxOfMatches ==
    /\ milter[1].policy.severity = MaxSeverity(milter[1].policy.matches)
    /\ last.op \in {"old_lookup", "lookup"} =>
          SeverityRank(milter[1].policy.severity)
             >= SeverityRank(last.before.severity)

\* A known domain was matched after a spam source: two matches, and the
\* severity went from Reject to Known.
C31_Witness ==
    /\ last.op = "old_lookup"
    /\ last.before.severity = "Reject"
    /\ milter[1].policy.severity = "Known"
    /\ Len(milter[1].policy.matches) = 2

\* ------------------------------------------------- the lock around the store

MaxHandlers == 2

\* The tasks that share the store: the node loop, the task of a milter
\* connection and the task of an HTTP request.
LockTasks == {"node", "milter", "api"}

Holds(lk, t) == t \in lk.writer \cup lk.readers

Waits(lk, t) == \E i \in 1..Len(lk.waiting) : lk.waiting[i].task = t

\* A guard can be handed out when no writer holds one and, for a writer,
\* no reader either.
Grantable(lk, mode) ==
    /\ lk.writer = {}
    /\ mode = "write" => lk.readers = {}

Grant(lk, t, mode) ==
    IF mode = "write" THEN [lk EXCEPT !.writer = {t}]
    ELSE [lk EXCEPT !.readers = @ \cup {t}]

\* The requests at the head of the queue are served in the order in which
\* they were made, as far as they can be.
RECURSIVE Wake(_)
Wake(lk) ==
    IF Len(lk.waiting) > 0 /\ Grantable(lk, Head(lk.waiting).mode)
    THEN Wake(Grant([lk EXCEPT !.waiting = Tail(@)],
                    Head(lk.waiting).task, Head(lk.waiting).mode))
    ELSE lk

\* read().await and write().await: the guard is handed out at once when
\* nobody waits and it can be, the request queues up otherwise.
Acquire(lk, t, mode) ==
    IF Len(lk.waiting) = 0 /\ Grantable(lk, mode) THEN Grant(lk, t, mode)
    ELSE [lk EXCEPT !.waiting = Append(@, [task |-> t, mode |-> mode])]

\* A guard dropped without handing the lock to those who wait.
ReleaseWithoutWaking(lk, t) ==
    [lk EXCEPT !.writer = @ \ {t}, !.readers = @ \ {t}]

\* The guard is dropped.
Release(lk, t) ==
    Wake([lk EXCEPT !.writer = @ \ {t}, !.readers = @ \ {t}])

Idle == [handler |-> "idle", at |-> 0]

\* The handlers at their start, each with what it was called with; asked
\* tells whether the guard for the next step has been asked for.
UserInput(what) ==
    [handler |-> "user_input", at |-> 1, asked |-> TRUE, what |-> what,
     statement |-> what, id |-> 0]

Broadcast(signed_statement) ==
    [handler |-> "broadcast", at |-> 1, asked |-> TRUE, signed_statement |-> signed_statement]

Response(list) == [handler |-> "response", at |-> 1, asked |-> TRUE, list |-> list]

Request(request) == [handler |-> request, at |-> 1, asked |-> TRUE]

AnnouncementOf(date) == [handler |-> "announcement", at |-> 1, asked |-> TRUE, date |-> date]

MilterLookup(entity) == [handler |-> "lookup", at |-> 1, asked |-> TRUE, entity |-> entity]

InsertStatementOf(what) == [handler |-> "insert_statement", at |-> 1, asked |-> TRUE, what |-> what]

\* The guard a handler takes for its next step.
GuardMode(task) ==
    CASE task.handler = "user_input" -> IF task.at \in {2, 3} THEN "write" ELSE "read"
      [] task.handler \in {"broadcast", "response", "insert_statement"} -> "write"
      [] OTHER -> "read"

\* What a step leaves behind: the store, the digests, the topics, the task
\* (Idle when the handler has returned) and whether it panicked.
Stepped(st, cache, tp, task, panic) ==
    [st |-> st, cache |-> cache, topics |-> tp, task |-> task, panic |-> panic]

\* handle_user_input on a line that parses as a statement: the template is
\* looked for under a read guard, the statement persisted under a write
\* guard, and sign_statement persists the opinion under a write guard of
\* its own; when persist fails the templates are listed under a read guard.
UserInputStep(task, st, cache, tp, p) ==
    CASE task.at = 1 ->
            Stepped(st, cache, tp,
                    [task EXCEPT !.at = 2,
                                 !.statement = IF HasMatchingTemplate(st, task.what)
                                               THEN task.what
                                               ELSE StatementHashEmails(task.what)],
                    FALSE)
      [] task.at = 2 ->
            Bind(Persist(st, p, task.statement),
              LAMBDA r :
                 IF r.panic THEN Stepped(r.st, cache, tp, Idle, TRUE)
                 ELSE IF ~r.ok THEN Stepped(st, cache, tp, [task EXCEPT !.at = 4], FALSE)
                 ELSE Stepped(r.st, cache, tp, [task EXCEPT !.at = 3, !.id = r.id],
                              FALSE))
      [] task.at = 3 ->
            Bind(SignStatement(st, p, task.statement, task.id),
              LAMBDA signed : Stepped(signed.st, cache, tp, Idle, signed.panic))
      [] OTHER -> Stepped(st, cache, tp, Idle, FALSE)

\* handle_response_message takes a write guard for each statement of the
\* list and flushes the digests after the last.
ResponseStep(task, st, cache, tp, p) ==
    Bind(PersistSignedStatements(st, p, <<task.list[task.at]>>),
      LAMBDA q :
         IF q.panic THEN Stepped(q.st, cache, tp, Idle, TRUE)
         ELSE IF task.at < Len(task.list)
         THEN Stepped(q.st, cache, tp, [task EXCEPT !.at = @ + 1], FALSE)
         ELSE Stepped(q.st, FlushOwnInfos, tp, Idle, FALSE))

\* handle_request_message holding the guard under which it lists the
\* templates while it asks for the one under which it reads the key.
KeepsGuardForKey(task) == task.handler = "template_request" /\ task.at = 1

\* The guards are temporaries that end with their statement, or locals of
\* a block that ends before the handler asks again: none is kept.
KeepsGuard(task) == FALSE

\* The step a task makes under the guard it holds.
HandlerStep(task, st, cache, tp, p) ==
    CASE task.handler = "user_input" -> UserInputStep(task, st, cache, tp, p)
      [] task.handler = "broadcast" ->
            Bind(HandleBroadcastStatement(st, cache, tp, p, task.signed_statement),
              LAMBDA r : Stepped(r.st, r.cache, r.topics, Idle, r.panic))
      [] task.handler = "response" -> ResponseStep(task, st, cache, tp, p)
      [] task.handler = "announcement" ->
            Stepped(st, UpdateOwnInfos(cache, st, task.date).cache, tp, Idle, FALSE)
      [] task.handler = "template_request" ->
            Stepped(st, cache, tp,
                    IF task.at = 1 THEN [task EXCEPT !.at = 2] ELSE Idle, FALSE)
      [] task.handler = "insert_statement" ->
            Bind(InsertStatement(st, cache, tp, p, task.what),
              LAMBDA r : Stepped(r.st, cache, tp, Idle, FALSE))
      [] OTHER -> Stepped(st, cache, tp, Idle, FALSE)

\* What the node loop may be given: a line of input, a broadcast, a
\* response, a request.
NodeHandlers ==
    {UserInput(SpammerB), Broadcast(SSpammerB),
     Response(<<SSpammerA, SSpammerB>>), Response(<<SUnknown>>),
     Request("template_request"), AnnouncementOf(Today)}

HandlersOf(t) ==
    IF t = "node" THEN NodeHandlers
    ELSE IF t = "milter" THEN {MilterLookup(DomB)}
    ELSE {MilterLookup(DomB), InsertStatementOf(SpammerB)}

\* An announcement whose day is in the cache of digests is answered from
\* the cache: the store is not touched.
NeedsGuard(task, cache) ==
    ~(task.handler = "announcement" /\ \E c \in cache : c.date = task.date)

InitLock ==
    /\ plan = "rowid"
    /\ storage = Single(SeededStorage(plan, KeyA))
    /\ topics = Single({})
    /\ mt = NotMatching
    /\ own_infos = Single({})
    /\ sent = Single(<<>>)
    /\ panicked = Single(FALSE)
    /\ steps = 0
    /\ last = [op |-> "init"]
    /\ pc = "idle"
    /\ clock = Today
    /\ milter = <<>>
    /\ queues = NoQueues
    /\ lock = NoLock
    /\ tasks = [t \in LockTasks |-> Idle]

\* A task is given something to handle; it asks for its first guard.
LockStart ==
    /\ steps < MaxHandlers
    /\ ~panicked[Node]
    /\ \E t \in LockTasks :
          /\ tasks[t] = Idle
          /\ \E task \in HandlersOf(t) :
                /\ IF NeedsGuard(task, own_infos[Node])
                   THEN /\ tasks' = [tasks EXCEPT ![t] = task]
                        /\ lock' = Acquire(lock, t, GuardMode(task))
                   ELSE UNCHANGED <<tasks, lock>>
                /\ last' = [op |-> "start", task |-> t, handler |-> task.handler]
    /\ steps' = steps + 1
    /\ UNCHANGED <<storage, own_infos, topics, sent, plan, panicked, pc, mt, clock,
                   milter, queues>>

\* A task asks for the guard of its next step.
LockRequestOf(t) ==
    /\ ~panicked[Node]
    /\ tasks[t] # Idle
    /\ ~tasks[t].asked
    /\ lock' = Acquire(lock, t, GuardMode(tasks[t]))
    /\ tasks' = [tasks EXCEPT ![t].asked = TRUE]
    /\ last' = [op |-> "request", task |-> t, handler |-> tasks[t].handler]
    /\ UNCHANGED <<storage, own_infos, topics, sent, plan, panicked, steps, pc, mt,
                   clock, milter, queues>>

LockRequest == \E t \in LockTasks : LockRequestOf(t)

\* A task does what it took the guard for and drops the guard.  A panic of
\* the node loop ends the process.
LockStepOf(t) ==
    /\ ~panicked[Node]
    /\ tasks[t] # Idle
    /\ tasks[t].asked
    /\ Holds(lock, t)
    /\ ~Waits(lock, t)
    /\ \E r \in {HandlerStep(tasks[t], storage[Node], own_infos[Node],
                             topics[Node], plan)} :
          /\ storage' = [storage EXCEPT ![Node] = r.st]
          /\ own_infos' = [own_infos EXCEPT ![Node] = r.cache]
          /\ topics' = [topics EXCEPT ![Node] = r.topics]
          /\ tasks' = [tasks EXCEPT ![t] = IF r.task = Idle THEN Idle
                                           ELSE [r.task EXCEPT !.asked = FALSE]]
          /\ panicked' = [panicked EXCEPT ![Node] = r.panic /\ t = "node"]
          /\ last' = [op |-> "step", task |-> t, handler |-> tasks[t].handler,
                      at |-> tasks[t].at, pre |-> storage[Node]]
    /\ lock' = IF KeepsGuard(tasks[t]) THEN lock ELSE Release(lock, t)
    /\ UNCHANGED <<sent, plan, steps, pc, mt, clock, milter, queues>>

LockStep == \E t \in LockTasks : LockStepOf(t)

NextLock ==
    \/ LockStart
    \/ LockRequest
    \/ LockStep

SpecLock == InitLock /\ [][NextLock]_vars

\* While some task can go on, one does: the runtime runs the tasks that
\* are ready.
SpecLockFair == SpecLock /\ WF_vars(LockRequest \/ LockStep)

\* The statements the handlers have stored: those that the store did not
\* hold when the node came up.
StoredByHandlers(st) ==
    {r \in st.statements :
        ~\E q \in SeededStorage("rowid", KeyA).statements : q.id = r.id}

\* Those of them that no opinion is about; the signer(<key>) rows that
\* persist_opinion adds for the signers of opinions are not counted.
Bare(st) ==
    {r \in StoredByHandlers(st) :
        ~\E o \in st.opinions : r.id \in {o.statement_id, o.signer_id}}

\* C32: whenever no write guard is held, every statement that a handler has
\* stored has an opinion: a reader never sees a statement without one.
C32_StatementNeverWithoutOpinion ==
    lock.writer = {} => Bare(storage[Node]) = {}

\* The milter holds a read guard between the two write guards of
\* handle_user_input: the statement typed in is stored, its opinion is not.
C32_Witness ==
    /\ "milter" \in lock.readers
    /\ tasks["node"].handler = "user_input"
    /\ tasks["node"].at = 3
    /\ \E r \in Bare(storage[Node]) : r.name = "spammer" /\ r.ents = <<"b.com">>

\* No task waits for a guard while it holds one.
NoGuardWhileAsking == \A t \in LockTasks : ~(Holds(lock, t) /\ Waits(lock, t))

\* A task whose handler has returned holds no guard and waits for none.
ReturnedHoldsNothing ==
    \A t \in LockTasks : tasks[t] = Idle => ~Holds(lock, t) /\ ~Waits(lock, t)

\* C38: the handlers of the node loop, of a milter connection and of an
\* HTTP request never deadlock on the lock of the store: no task asks for a
\* guard while it holds one, a handler that has returned holds none, and
\* every request for a guard is granted in the end (as long as the process
\* runs).
C38_NoDeadlockOnStorage ==
    /\ [](NoGuardWhileAsking /\ ReturnedHoldsNothing)
    /\ \A t \in LockTasks :
          Waits(lock, t) ~> (Holds(lock, t) /\ ~Waits(lock, t)) \/ panicked[Node]

\* The node loop waited for a write guard while the milter task held a
\* read guard, and has it now.
C38_Witness ==
    /\ last.op = "step"
    /\ last.task = "milter"
    /\ lock.writer = {"node"}
    /\ lock.waiting = <<>>

\* ------------------------------------ milter: the join set of lookup_path

\* The longest path, in selectors.
MaxPath == 3

\* A path is kept as its characters up to the first selector and, from there,
\* as selectors and the dots between them. The first character of the
\* remainder that paths_matching_prefix cuts off a rule's field is a dot, any
\* other character of one byte, or a character of more than one byte.
PathLeads == {".", "-", "\\u00e9"}
Utf8Len(lead) == IF lead = "\\u00e9" THEN 2 ELSE 1

Selectors == {"domain", "mx", "a", "ptr", "cc"}

RECURSIVE Dotted(_)
Dotted(selectors) ==
    IF Len(selectors) = 0 THEN <<>>
    ELSE IF Len(selectors) = 1 THEN selectors
    ELSE <<Head(selectors), ".">> \o Dotted(Tail(selectors))

SelectorSeqs(n) == UNION {[1..k -> Selectors] : k \in 0..n}

JoinPaths ==
    {<<>>} \cup {<<lead>> \o Dotted(s) : lead \in PathLeads, s \in SelectorSeqs(MaxPath)}

\* The values a stage hands to lookup: an envelope sender, one whose domain
\* has a two-byte character in its third byte from the end, the host name
\* and the address of the connection, and a header match of the IPv4
\* pattern that is no address.
JoinRoots ==
    { FieldValue("Mail", "u@b.com"), FieldValue("Mail", "u@a\\u00e9b"),
      FieldValue("Domain", "b.com"), FieldValue("Ipv4", "10.0.0.1"),
      FieldValue("Ipv4", "999.1.1.1") }

\* The queries the name servers may fail to answer.
JoinQueries ==
    { <<"mx", "b.com">>, <<"a", "mx2.b.de">>, <<"ptr", "10.0.0.1">> }

\* The records of the zone, all of them well-formed: addresses printed from
\* their binary form, names in ASCII without the final dot.
DnsRecords(part, name) ==
    CASE part = "mx" /\ name = "b.com" ->
            <<FieldValue("Domain", "mx1.b.de"), FieldValue("Domain", "mx2.b.de")>>
      [] part = "a" /\ name = "mx1.b.de" -> <<FieldValue("Ipv4", "10.0.0.1")>>
      [] part = "a" /\ name = "mx2.b.de" ->
            <<FieldValue("Ipv4", "10.0.0.1"), FieldValue("Ipv4", "10.0.0.2")>>
      [] part = "a" /\ name = "b.com" -> <<FieldValue("Ipv4", "10.0.0.1")>>
      [] part = "ptr" /\ name = "10.0.0.1" -> <<FieldValue("Domain", "b.com")>>
      [] OTHER -> <<>>

\* ip.parse(): the texts that are addresses.
ParsesAsIp(data) == data \in {"10.0.0.1", "10.0.0.2"}

\* What a lookup comes to: the values it gives, or the task unwinds.
Found(values) == [unwinds |-> FALSE, values |-> values]
Unwinds == [unwinds |-> TRUE, values |-> <<>>]

\* FieldValue::lookup: the values one selector derives from a value. An
\* error of the resolver is logged and gives no values.
JoinFieldLookup(failing, value, part) ==
    CASE part = "domain" ->
            IF value.kind = "Mail"
            THEN Found(<<FieldValue("Domain",
                                    IF value.data = "u@b.com" THEN "b.com" ELSE "a\\u00e9b")>>)
            ELSE Found(<<>>)
      [] part \in {"mx", "a"} ->
            IF value.kind = "Domain" /\ <<part, value.data>> \notin failing
            THEN Found(DnsRecords(part, value.data)) ELSE Found(<<>>)
      [] part = "ptr" ->
            IF value.kind # "Ipv4" THEN Found(<<>>)
            ELSE IF ~ParsesAsIp(value.data) THEN Unwinds
            ELSE IF <<part, value.data>> \in failing THEN Found(<<>>)
            ELSE Found(DnsRecords(part, value.data))
      [] part = "cc" ->
            IF value.kind # "Domain" THEN Found(<<>>)
            ELSE IF value.data = "a\\u00e9b" THEN Unwinds
            ELSE IF value.data \in {"mx1.b.de", "mx2.b.de"}
            THEN Found(<<FieldValue("Str", "de")>>)
            ELSE Found(<<>>)
      [] OTHER -> Found(<<>>)

LookupTask(value, path) == [value |-> value, path |-> path]

\* path.find("."): the selector before the first dot and what follows it.
FirstOf(path) == IF Len(path) = 0 THEN "" ELSE Head(path)
RestOf(path) == IF Len(path) < 2 THEN <<>> ELSE SubSeq(path, 3, Len(path))

\* LookupTask::lookup.
LookupTaskLookup(failing, task) ==
    LET found == JoinFieldLookup(failing, task.value, FirstOf(task.path))
    IN [unwinds |-> found.unwinds,
        values |-> [i \in 1..Len(found.values) |->
                       LookupTask(found.values[i], RestOf(task.path))]]

\* What the branches whose lookups succeed lead to, whatever the order in
\* which the tasks finish.
RECURSIVE LeafValues(_, _)
LeafValues(failing, task) ==
    LET found == LookupTaskLookup(failing, task)
    IN Flatten([i \in 1..Len(found.values) |->
                   IF Len(found.values[i].path) = 0 THEN <<found.values[i].value>>
                   ELSE LeafValues(failing, found.values[i])])

BagOfSeq(s) ==
    [x \in {s[i] : i \in DOMAIN s} |-> Cardinality({i \in DOMAIN s : s[i] = x})]

JoinCall(value, path, failing) ==
    [op |-> "lookup_path", value |-> value, path |-> path, failing |-> failing,
     results |-> <<>>]

InitJoin ==
    /\ plan = "rowid"
    /\ storage = Single(EmptyStorage)
    /\ topics = Single({})
    /\ mt = NotMatching
    /\ own_infos = Single({})
    /\ sent = Single(<<>>)
    /\ panicked = Single(FALSE)
    /\ steps = 0
    /\ pc = "called"
    /\ clock = Today
    /\ milter = <<>>
    /\ queues = NoQueues
    /\ lock = NoLock
    /\ tasks = <<>>
    /\ \E value \in JoinRoots, path \in JoinPaths, failing \in SUBSET JoinQueries :
          last = JoinCall(value, path, failing)

\* lookup_path up to the loop: an empty path gives the value itself;
\* otherwise the first byte is cut off and the first task is spawned.
JoinSpawnFirst ==
    /\ pc = "called"
    /\ IF Len(last.path) = 0
       THEN /\ last' = [last EXCEPT !.results = <<last.value>>]
            /\ pc' = "returned"
            /\ tasks' = tasks
       ELSE IF Utf8Len(Head(last.path)) > 1
       THEN /\ pc' = "panicked"
            /\ UNCHANGED <<last, tasks>>
       ELSE /\ tasks' = <<LookupTask(last.value, Tail(last.path))>>
            /\ pc' = "joining"
            /\ last' = last
    /\ UNCHANGED <<storage, own_infos, topics, sent, plan, panicked, steps, mt,
                   clock, milter, queues, lock>>

Without(s, i) == SubSeq(s, 1, i - 1) \o SubSeq(s, i + 1, Len(s))

\* join_one hands over the values of only the first task that finishes.
JoinFinishedFirstOnly(finished) == SubSeq(finished, 1, 1)

\* The tasks a finished task leads to.
JoinFinished(finished) == finished

\* One round of the loop: some task finishes. Its leaves are pushed and
\* its other values spawned; when it has unwound, join_one gives an error,
\* the loop ends and the set is dropped with the tasks still in it.
JoinOne ==
    /\ pc = "joining"
    /\ Len(tasks) > 0
    /\ \E i \in 1..Len(tasks) :
          \E found \in {LookupTaskLookup(last.failing, tasks[i])} :
             IF found.unwinds
             THEN /\ pc' = "returned"
                  /\ tasks' = <<>>
                  /\ last' = last
             ELSE \E finished \in {JoinFinished(found.values)} :
                  \E leaves \in {SelectSeq(finished, LAMBDA next : Len(next.path) = 0)} :
                  /\ last' = [last EXCEPT !.results =
                                 @ \o [k \in 1..Len(leaves) |-> leaves[k].value]]
                  /\ tasks' = Without(tasks, i)
                                 \o SelectSeq(finished, LAMBDA next : Len(next.path) > 0)
                  /\ pc' = pc
    /\ steps' = steps + 1
    /\ UNCHANGED <<storage, own_infos, topics, sent, plan, panicked, mt,
                   clock, milter, queues, lock>>

\* The set is empty: join_one gives None and the results are returned.
JoinNone ==
    /\ pc = "joining"
    /\ Len(tasks) = 0
    /\ pc' = "returned"
    /\ UNCHANGED <<storage, own_infos, topics, sent, plan, panicked, steps, last, mt,
                   clock, milter, queues, lock, tasks>>

NextJoin == JoinSpawnFirst \/ JoinOne \/ JoinNone

SpecJoin == InitJoin /\ [][NextJoin]_vars

\* The results are those of the branches that succeed, for every path that
\* begins with a character of one byte.
JoinReturnsLeaves ==
    pc = "returned" =>
        BagOfSeq(last.results) =
            BagOfSeq(IF Len(last.path) = 0 THEN <<last.value>>
                     ELSE LeafValues(last.failing, LookupTask(last.value, Tail(last.path))))

\* Every task of the set has a path shorter than the path of the call.
JoinPathsShrink ==
    \A i \in 1..Len(tasks) : Len(tasks[i].path) < Len(last.path)

\* C33: lookup_path returns for every value and every path, and what it
\* returns are exactly the leaf values of the branches whose lookups succeed;
\* a failing branch adds nothing and takes nothing away from the others.
C33_LookupPathReturnsLeaves ==
    /\ pc # "panicked"
    /\ JoinPathsShrink
    /\ JoinReturnsLeaves

\* A task has failed at the name server while its sibling went on and the
\* values of the sibling were returned.
C33_Witness ==
    /\ pc = "returned"
    /\ <<"a", "mx2.b.de">> \in last.failing
    /\ last.path = <<".", "domain", ".", "mx", ".", "a">>
    /\ last.results = <<FieldValue("Ipv4", "10.0.0.1")>>

\* ------------------------------------------- opinions: the certainty field

\* How many opinions are read and stored.
MaxCertaintyOps == 4

\* The certainties a text may carry: the ends of the range of the spec, of
\* the i8 of the code, and their neighbours.
CertaintyValues == {-129, -128, -4, -3, 0, 3, 4, 127, 128}

CertaintyTexts ==
    { NatChars(date) \o <<";", "3", "0", ";">> \o NatChars(serial) \o <<";">>
          \o IntChars(certainty) \o <<";">> :
        date \in {Today - 1, Today}, serial \in {0, 1}, certainty \in CertaintyValues }

\* The certainty the text of an opinion carries.
CertaintyOf(text) ==
    LET part == Split(text, ";")[4]
    IN IF Head(part) = "-" THEN 0 - DigitsValue(0, Tail(part)) ELSE DigitsValue(0, part)

CertaintyReady == steps < MaxCertaintyOps /\ ~panicked[Node]

InitCertainty ==
    /\ plan = "rowid"
    /\ storage = Single(SeededStorage(plan, KeyA))
    /\ topics = Single({})
    /\ mt = NotMatching
    /\ InitCommon

\* The text of an opinion is parsed.
CertaintyFromStr ==
    /\ CertaintyReady
    /\ \E text \in CertaintyTexts :
         \E r \in {OpinionFromStr(text)} :
            /\ last' = [op |-> "from_str", text |-> text, result |-> r]
            /\ panicked' = [panicked EXCEPT ![Node] = r.panic]
    /\ steps' = steps + 1
    /\ UNCHANGED <<storage, own_infos, topics, sent, plan, pc, mt, clock, milter,
                   queues, lock, tasks>>

\* The parsed opinion, signed by Key1 over spammer(a.com), is stored with
\* the statement.
CertaintyPersistOpinion ==
    /\ CertaintyReady
    /\ last.op = "from_str"
    /\ last.result.ok
    /\ \E s \in {Persist(storage[Node], plan, SpammerA)} :
       \E o \in {[date |-> last.result.opinion.date, valid |-> last.result.opinion.valid,
                  serial |-> last.result.opinion.serial,
                  certainty |-> last.result.opinion.certainty, comment |-> ""]} :
       \E so \in {SignedBy(SpammerA, o, Key1)} :
       \E r \in {IF s.ok
                 THEN PersistOpinion(s.st, plan, so, s.id) ELSE PersistErr(s.st)} :
            /\ storage' = [storage EXCEPT ![Node] = r.st]
            /\ panicked' = [panicked EXCEPT ![Node] = r.panic]
            /\ last' = [op |-> "persist_opinion", text |-> last.text, so |-> so,
                        ok |-> r.ok, inserted |-> r.inserted]
    /\ steps' = steps + 1
    /\ UNCHANGED <<own_infos, topics, sent, plan, pc, mt, clock, milter, queues, lock, tasks>>

NextCertainty == CertaintyFromStr \/ CertaintyPersistOpinion

SpecCertainty == InitCertainty /\ [][NextCertainty]_vars

\* C34: an opinion the parser accepts and an opinion the store holds has a
\* certainty from -3 to 3; one outside that range is rejected and not stored.
C34_CertaintyInRange ==
    /\ last.op = "from_str" /\ last.result.ok =>
          last.result.opinion.certainty \in -3..3
    /\ \A o \in storage[Node].opinions : o.certainty \in -3..3

\* The text 2;30;0;127; has been parsed and its opinion stored.
C34_Witness ==
    /\ last.op = "persist_opinion"
    /\ last.ok /\ last.inserted
    /\ last.so.certainty = 127
    /\ \E o \in storage[Node].opinions : o.certainty = 127

\* What the type of the field alone keeps out: the texts -129 and 128 are
\* no i8 and the parser refuses them.
CertaintyIsI8 ==
    /\ last.op = "from_str" => (last.result.ok <=> CertaintyOf(last.text) \in -128..127)
    /\ \A o \in storage[Node].opinions : o.certainty \in -128..127

\* ------------------------------------------ the template cache and the rows

\* The templates the rows of the statement table spell out, under their ids.
StoredTemplates(st) ==
    {[id |-> r.id, value |-> TemplateFromStr(r.ents[1])] :
        r \in {q \in st.statements :
                 q.name = "template" /\ TemplateFromStr(q.ents[1]) # None}}

\* C35: whenever the store is open, the template cache holds exactly the
\* templates of the stored template(...) statements, under the same ids.
C35_TemplateCacheMatchesRows ==
    (pc = "up") => storage[Node].templates = StoredTemplates(storage[Node])

\* The store is opened with a template whose last opinion has expired:
\* the template is read into the cache, then its row is cleaned up.
C35_Witness ==
    /\ last.op = "new"
    /\ \E r \in last.pre.statements :
          /\ r.name = "template" /\ r.ents = <<TemplateToString(TSpammer)>>
          /\ \E o \in last.pre.opinions : o.statement_id = r.id /\ Expired(o, last.today)
          /\ MapHas(storage[Node].templates, r.id)
          /\ ~\E q \in storage[Node].statements : q.id = r.id

\* What does hold: no stored template is missing from the cache.
StoredTemplatesAreCached ==
    (pc = "up") => StoredTemplates(storage[Node]) \subseteq storage[Node].templates

\* ------------------------------------------- what the opinion rows refer to

\* The rows an opinion row refers to exist, the one behind signer_id is a
\* signer(<key>) statement, and the signers cache has that key under the id.
RefersToRows(st, o) ==
    /\ \E r \in st.statements : r.id = o.statement_id
    /\ \E r \in st.statements :
          /\ r.id = o.signer_id
          /\ r.name = "signer" /\ Len(r.ents) = 1 /\ IsSignerText(r.ents[1])
          /\ MapHas(st.signers, o.signer_id)
          /\ MapGet(st.signers, o.signer_id) = r.ents[1]

MaxReadBack == 3

ReadBackOpinions ==
    { [date |-> date, valid |-> 30, serial |-> serial, certainty |-> 3,
       comment |-> comment] :
        date \in {Today - 1, Today}, serial \in {0, 1}, comment \in {"", "seen"} }

\* list_opinions_on.
ListOpinionsOn(st, id) ==
    LET rows == RowsById({o \in st.opinions : o.statement_id = id})
    IN [j \in 1..Len(rows) |-> RowOpinion(st, rows[j])]

InitReadBack ==
    /\ plan = "rowid"
    /\ storage = Single(SeededStorage(plan, KeyA))
    /\ topics = Single({})
    /\ mt = NotMatching
    /\ InitCommon

\* A statement arrives with the opinion of a signer; both are stored.
ReadBackPersistOpinion ==
    /\ steps < MaxReadBack
    /\ ~panicked[Node]
    /\ \E statement \in {SpammerA, SpammerB}, o \in ReadBackOpinions, k \in {Key1, Key2} :
       \E s \in {Persist(storage[Node], plan, statement)} :
       \E so \in {SignedBy(statement, o, k)} :
       \E r \in {IF s.ok THEN PersistOpinion(s.st, plan, so, s.id) ELSE PersistErr(s.st)} :
          /\ storage' = [storage EXCEPT ![Node] = r.st]
          /\ panicked' = [panicked EXCEPT ![Node] = r.panic]
          /\ last' = [op |-> "persist_opinion", statement |-> statement, sid |-> s.id,
                      so |-> so, inserted |-> r.ok /\ r.inserted, opinions |-> <<>>]
    /\ steps' = steps + 1
    /\ UNCHANGED <<own_infos, topics, sent, plan, pc, mt, clock, milter, queues, lock, tasks>>

\* The opinions on the statement just stored are listed.
ReadBackListOpinionsOn ==
    /\ steps < MaxReadBack
    /\ ~panicked[Node]
    /\ last.op = "persist_opinion"
    /\ last' = [last EXCEPT !.op = "list_opinions_on",
                            !.opinions = ListOpinionsOn(storage[Node], last.sid)]
    /\ steps' = steps + 1
    /\ UNCHANGED <<storage, own_infos, topics, sent, plan, panicked, pc, mt, clock, milter,
                   queues, lock, tasks>>

NextReadBack == ReadBackPersistOpinion \/ ReadBackListOpinionsOn

SpecReadBack == InitReadBack /\ [][NextReadBack]_vars

\* C37: the opinion persist_opinion has stored is among the opinions listed
\* for its statement, with every field as it was passed in, and each listed
\* opinion carries a signature that verifies over its canonical bytes
\* followed by the statement.
C37_ReadBackIsWhatWasStored ==
    (last.op = "list_opinions_on" /\ last.inserted) =>
        /\ Contains(last.opinions, last.so)
        /\ \A j \in 1..Len(last.opinions) :
              VerifySignature(last.opinions[j], StatementToString(last.statement))

\* An opinion with the comment "seen" has been stored and is listed without
\* its comment; the signature made over the comment is still attached.
C37_Witness ==
    /\ last.op = "list_opinions_on" /\ last.inserted
    /\ last.so.comment = "seen"
    /\ \E j \in 1..Len(last.opinions) :
          /\ last.opinions[j].signature = last.so.signature
          /\ last.opinions[j].comment = ""

\* What does hold: every field but the comment is read back as stored.
ReadBackButComment ==
    (last.op = "list_opinions_on" /\ last.inserted) =>
        Contains(last.opinions, [last.so EXCEPT !.comment = ""])

\* ------------------------------------------- expiry while the node runs

\* The days the node is followed over, and the steps taken in them.
MaxDays == 2
MaxExpirySteps == 4

ExpiryReady == steps < MaxExpirySteps /\ ~panicked[Node]

InitExpiry ==
    /\ plan = "rowid"
    /\ storage = Single(SeededStorage(plan, KeyA))
    /\ topics = Single({})
    /\ mt = NotMatching
    /\ own_infos = Single({})
    /\ sent = Single(<<>>)
    /\ panicked = Single(FALSE)
    /\ steps = 0
    /\ last = [op |-> "init"]
    /\ pc = "up"
    /\ clock = Today
    /\ milter = <<>>
    /\ queues = NoQueues
    /\ lock = NoLock
    /\ tasks = NoTasks

\* A statement arrives with an opinion dated today that is valid for today
\* only or until tomorrow; both are stored.
ExpiryPersistOpinion ==
    /\ ExpiryReady
    /\ \E statement \in {SpammerA, SpammerB}, valid \in {0, 1}, k \in {Key1, Key2} :
       \E s \in {Persist(storage[Node], plan, statement)} :
       \E so \in {SignedBy(statement,
                           [date |-> clock, valid |-> valid, serial |-> 0,
                            certainty |-> 3, comment |-> ""], k)} :
       \E r \in {IF s.ok THEN PersistOpinion(s.st, plan, so, s.id) ELSE PersistErr(s.st)} :
          /\ storage' = [storage EXCEPT ![Node] = r.st]
          /\ panicked' = [panicked EXCEPT ![Node] = r.panic]
          /\ last' = [op |-> "persist_opinion", today |-> clock]
    /\ steps' = steps + 1
    /\ UNCHANGED <<own_infos, topics, sent, plan, pc, mt, clock, milter, queues, lock, tasks>>

\* Midnight passes; the node keeps running.
ExpiryNextDay ==
    /\ ExpiryReady
    /\ clock < Today + MaxDays
    /\ clock' = clock + 1
    /\ last' = [op |-> "next_day", today |-> clock + 1]
    /\ steps' = steps + 1
    /\ UNCHANGED <<storage, own_infos, topics, sent, plan, panicked, pc, mt, milter, queues,
                   lock, tasks>>

\* The node is stopped and started again: Storage::new.
ExpiryNew ==
    /\ ExpiryReady
    /\ storage' = [storage EXCEPT ![Node] = StorageNew(@, plan, KeyA, clock)]
    /\ last' = [op |-> "new", today |-> clock]
    /\ steps' = steps + 1
    /\ UNCHANGED <<own_infos, topics, sent, plan, panicked, pc, mt, clock, milter, queues,
                   lock, tasks>>

\* The milter or the HTTP lookup asks for the statements about a domain.
ExpiryFindStatementsAbout ==
    /\ ExpiryReady
    /\ \E entity \in {DomA, DomB} :
          last' = [op |-> "find_statements_about", today |-> clock, entity |-> entity,
                   statements |-> FindStatementsAbout(storage[Node], entity)]
    /\ steps' = steps + 1
    /\ UNCHANGED <<storage, own_infos, topics, sent, plan, panicked, pc, mt, clock, milter,
                   queues, lock, tasks>>

NextExpiry ==
    \/ ExpiryPersistOpinion
    \/ ExpiryNextDay
    \/ ExpiryNew
    \/ ExpiryFindStatementsAbout

SpecExpiry == InitExpiry /\ [][NextExpiry]_vars

\* The statement has a stored opinion that has not expired.
HasLiveOpinion(st, statement, today) ==
    \E r \in st.statements :
       /\ RowStatement(r) = statement
       /\ \E o \in st.opinions : o.statement_id = r.id /\ ~Expired(o, today)

\* C39: across a change of day with the node running, find_statements_about
\* returns no statement all of whose opinions have expired; no stored
\* opinion has date + valid < today.
C39_NoExpiredStatementFound ==
    /\ \A o \in storage[Node].opinions : ~Expired(o, clock)
    /\ last.op = "find_statements_about" =>
          \A i \in 1..Len(last.statements) :
             HasLiveOpinion(storage[Node], last.statements[i], last.today)

\* The day has changed since the opinion on spammer(a.com) was stored, the
\* opinion has expired, and the lookup of a.com returns the statement.
C39_Witness ==
    /\ last.op = "find_statements_about"
    /\ last.today > Today
    /\ Contains(last.statements, SpammerA)
    /\ ~HasLiveOpinion(storage[Node], SpammerA, last.today)

\* What does hold: right after Storage::new no opinion has expired.
NothingExpiredAfterNew ==
    last.op = "new" => \A o \in storage[Node].opinions : ~Expired(o, clock)

\* -------------------------------------------- a connection is established

\* The messages handled after the connection is there.
MaxConnectSteps == 7

Other(n) == IF n = "A" THEN "B" ELSE "A"

ReportedU == Stmt("reported", <<Ent("HashValue", "#sha256=u@a.com")>>)

\* What A may hold that B does not: the template reported(HashValue) with a
\* statement of it, and a statement of a template both hold.
ConnectHoldings == { <<TemplateStatement(TReported), ReportedU>>,
                     <<TemplateStatement(TReported), ReportedU, SpammerA>>,
                     <<SpammerA>> }

RECURSIVE SignEach(_, _, _, _)
SignEach(st, p, statements, key) ==
    IF Len(statements) = 0 THEN st
    ELSE SignEach(SignStatementDefault(st, p, Head(statements), key).st, p,
                  Tail(statements), key)

\* Every statement of the list has a template in the cache when its turn to
\* be persisted comes.
RECURSIVE MatchInTurn(_, _, _)
MatchInTurn(st, p, list) ==
    IF Len(list) = 0 THEN TRUE
    ELSE /\ HasMatchingTemplate(st, Head(list).statement)
         /\ MatchInTurn(PersistSignedStatements(st, p, <<Head(list)>>).st, p, Tail(list))

InitConnect ==
    /\ plan = "rowid"
    /\ \E held \in ConnectHoldings :
          storage = [n \in Nodes |->
                        IF n = "A" THEN SignEach(SeededStorage(plan, KeyA), plan, held, KeyA)
                        ELSE SeededStorage(plan, KeyB)]
    /\ topics = [n \in Nodes |-> {}]
    /\ mt = NotMatching
    /\ own_infos = Single({})
    /\ sent = Single(<<>>)
    /\ panicked = Single(FALSE)
    /\ steps = 0
    /\ last = [op |-> "init"]
    /\ pc = "connecting"
    /\ clock = Today
    /\ milter = <<>>
    /\ queues = NoQueues
    /\ lock = NoLock
    /\ tasks = [n \in Nodes |-> "dialing"]

ConnectReady(n) == steps < MaxConnectSteps /\ ~panicked[n]

\* handle_connection_established: the node asks the peer for its templates
\* and queues SendAnnouncement for itself.
ConnectionEstablished ==
    \E n \in Nodes :
       /\ ConnectReady(n)
       /\ tasks[n] = "dialing"
       /\ tasks' = [tasks EXCEPT ![n] = "connected"]
       /\ sent' = [sent EXCEPT ![n] = @ \o <<PostMessage(Other(n), TemplateRequest)>>]
       /\ last' = [op |-> "ConnectionEstablished", at |-> n]
       /\ steps' = steps + 1
       /\ UNCHANGED <<storage, own_infos, topics, plan, panicked, pc, mt, clock, milter,
                      queues, lock>>

\* The queued SendAnnouncement is handled: the digests of today and
\* yesterday go to the peer.
ConnectSendAnnouncement ==
    \E n \in Nodes :
       /\ ConnectReady(n)
       /\ tasks[n] = "connected"
       /\ \E r \in {HandleSendAnnouncement(storage[n], own_infos[n], topics[n], Other(n))} :
             /\ ApplyAt(n, r)
             /\ sent' = [sent EXCEPT ![n] = @ \o r.out]
       /\ tasks' = [tasks EXCEPT ![n] = "announced"]
       /\ last' = [op |-> "SendAnnouncement", at |-> n]
       /\ steps' = steps + 1
       /\ UNCHANGED <<plan, pc, mt, clock, milter, queues, lock>>

\* What handle_request_message does with an announcement.
HandleAnnouncement(st, cache, tp, peer, infos) ==
    Bind(AddInfos(cache, st, infos),
         LAMBDA a :
            Outcome(st, a.cache, tp,
                    OpinionRequests(peer, SetToSeq(a.names), infos.date)
                       \o <<SendResponse(peer, ResponseNone)>>,
                    FALSE))

\* handle_request_message for any request of the peer that has arrived;
\* the requests travel on streams of their own and arrive in any order.
ConnectHandleRequest ==
    \E n \in Nodes :
       /\ ConnectReady(n)
       /\ tasks[n] # "dialing"
       /\ \E i \in 1..Len(sent[Other(n)]) :
          \E m \in {sent[Other(n)][i]} :
             /\ m.via = "rpc"
             /\ \E r \in {CASE m.msg.type = "TemplateRequest" ->
                                 HandleTemplateRequest(storage[n], own_infos[n], topics[n],
                                                       Other(n))
                            [] m.msg.type = "OpinionRequest" ->
                                 HandleOpinionRequest(storage[n], own_infos[n], topics[n],
                                                      Other(n), m.msg.name, m.msg.date)
                            [] OTHER ->
                                 HandleAnnouncement(storage[n], own_infos[n], topics[n],
                                                    Other(n), m.msg.infos)} :
                   /\ ApplyAt(n, r)
                   /\ sent' = [sent EXCEPT ![n] = @ \o r.out,
                                           ![Other(n)] = Without(@, i)]
             /\ last' = [op |-> m.msg.type, at |-> n]
       /\ steps' = steps + 1
       /\ UNCHANGED <<plan, pc, mt, clock, milter, queues, lock, tasks>>

\* handle_response_message for any response of the peer that has arrived.
ConnectHandleResponse ==
    \E n \in Nodes :
       /\ ConnectReady(n)
       /\ tasks[n] # "dialing"
       /\ \E i \in 1..Len(sent[Other(n)]) :
          \E m \in {sent[Other(n)][i]} :
             /\ m.via = "response"
             /\ \E r \in {IF m.msg.type = "Statements"
                          THEN HandleResponseStatements(storage[n], own_infos[n], topics[n],
                                                        plan, m.msg.list)
                          ELSE Outcome(storage[n], own_infos[n], topics[n], <<>>, FALSE)} :
                   /\ ApplyAt(n, r)
                   /\ sent' = [sent EXCEPT ![Other(n)] = Without(@, i)]
             /\ last' = [op |-> "Response", at |-> n, type |-> m.msg.type,
                         list |-> IF m.msg.type = "Statements" THEN m.msg.list ELSE <<>>,
                         pre |-> storage[n]]
       /\ steps' = steps + 1
       /\ UNCHANGED <<plan, pc, mt, clock, milter, queues, lock, tasks>>

NextConnect ==
    \/ ConnectionEstablished
    \/ ConnectSendAnnouncement
    \/ ConnectHandleRequest
    \/ ConnectHandleResponse

SpecConnect == InitConnect /\ [][NextConnect]_vars

\* C40: in every order in which the responses arrive, each statement of a
\* handled Statements response has a template in the cache of the receiving
\* node when it is persisted.
C40_PulledStatementsHaveTemplates ==
    last.op = "Response" => MatchInTurn(last.pre, plan, last.list)

\* B has handled the response to OpinionRequest{reported} while its
\* TemplateRequest is still on the way to A.
C40_Witness ==
    /\ last.op = "Response" /\ last.at = "B"
    /\ Len(last.list) = 1
    /\ last.list[1].statement = ReportedU
    /\ ~HasMatchingTemplate(last.pre, ReportedU)
    /\ \E i \in 1..Len(sent["B"]) : sent["B"][i].msg = TemplateRequest
    /\ panicked["B"]

\* What the order of arrival cannot break: statements of templates that
\* both nodes hold.
KnownTemplatesArePersisted ==
    (last.op = "Response" /\ \A i \in 1..Len(last.list) :
                                last.list[i].statement.name \in {"template", "spammer"})
        => ~panicked[last.at]

====
